---------------------------- MODULE Spec2Model ----------------------------
(***************************************************************************)
(* A model of the CHIP-8 interpreter of src/chip8 (cpu.py, screen.py).     *)
(*                                                                         *)
(* The state is the CPU object's fields, the Screen object's fields and    *)
(* the observable result of the last call made on the CPU (what it         *)
(* returned or which exception it raised).  There is one action per        *)
(* instruction handler; every handler action models one whole call of      *)
(* cpu_execute_instruction: the fetch, the dispatch and the handler.       *)
(* Integers are Python integers: unbounded, and nothing wraps unless the   *)
(* code wraps it.                                                          *)
(***************************************************************************)
EXTENDS Integers, Sequences, FiniteSets, TLC

---------------------------------------------------------------------------
(* Program constants (cpu.py, screen.py)                                   *)

MAX_MEMORY == 4096

STACK_POINTER_START == 82

PROGRAM_COUNTER_START == 512

NUM_REGISTERS == 16

MODE_NORMAL == "normal"

MODE_EXTENDED == "extended"

\* The lookup keys of KEY_MAPPINGS: the sixteen CHIP-8 keys.
KEY_MAPPINGS == 0 .. 15

\* SCREEN_HEIGHT and SCREEN_WIDTH, by screen mode.
SCREEN_HEIGHT(m) == IF m = MODE_EXTENDED THEN 64 ELSE 32

SCREEN_WIDTH(m) == IF m = MODE_EXTENDED THEN 128 ELSE 64

(* The operand masks of the module `addresses`, which cpu.py imports.  The  *)
(* module is not among the source files; the values are the bit fields of   *)
(* the instruction word (top nibble, low byte, register X, register Y, low  *)
(* nibble, 12-bit address, high byte) and the low bytes of the 0x0 group,   *)
(* as the handlers' docstrings in cpu.py lay them out.                      *)
ADDRESS_1 == 61440

ADDRESS_2 == 255

ADDRESS_3 == 3840

ADDRESS_4 == 240

ADDRESS_5 == 192

ADDRESS_6 == 15

ADDRESS_7 == 224

ADDRESS_8 == 238

ADDRESS_9 == 251

ADDRESS_10 == 252

ADDRESS_11 == 253

ADDRESS_12 == 254

ADDRESS_13 == 4095

ADDRESS_14 == 65280

---------------------------------------------------------------------------
(* Bounds of the model                                                     *)

\* The number of calls (instructions, ticks, resets, ROM loads) of one run.
MaxSteps == 3

---------------------------------------------------------------------------
(* Python's integer operators, on unbounded two's-complement integers      *)

\* The operators on one bit pair, and on a pair of hexadecimal digits.
RECURSIVE DigitOp(_, _, _, _)
DigitOp(op, a, b, bits) ==
    IF bits = 0 THEN 0
    ELSE (CASE op = "and" -> (a % 2) * (b % 2)
            [] op = "or" -> IF (a % 2) + (b % 2) > 0 THEN 1 ELSE 0
            [] op = "xor" -> ((a % 2) + (b % 2)) % 2)
         + 2 * DigitOp(op, a \div 2, b \div 2, bits - 1)

AndDigits == [a \in 0 .. 15 |-> [b \in 0 .. 15 |-> DigitOp("and", a, b, 4)]]

OrDigits == [a \in 0 .. 15 |-> [b \in 0 .. 15 |-> DigitOp("or", a, b, 4)]]

XorDigits == [a \in 0 .. 15 |-> [b \in 0 .. 15 |-> DigitOp("xor", a, b, 4)]]

\* a & b
RECURSIVE BitAnd(_, _)
BitAnd(a, b) ==
    IF a = 0 \/ b = 0 THEN 0
    ELSE IF a = -1 THEN b
    ELSE IF b = -1 THEN a
    ELSE AndDigits[a % 16][b % 16] + 16 * BitAnd(a \div 16, b \div 16)

\* a | b
RECURSIVE BitOr(_, _)
BitOr(a, b) ==
    IF a = 0 THEN b
    ELSE IF b = 0 THEN a
    ELSE IF a = -1 \/ b = -1 THEN -1
    ELSE OrDigits[a % 16][b % 16] + 16 * BitOr(a \div 16, b \div 16)

\* a ^ b
RECURSIVE BitXor(_, _)
BitXor(a, b) ==
    IF a = 0 THEN b
    ELSE IF b = 0 THEN a
    ELSE IF a = -1 /\ b = -1 THEN 0
    ELSE XorDigits[a % 16][b % 16] + 16 * BitXor(a \div 16, b \div 16)

\* a >> n and a << n
Shr(a, n) == a \div (2 ^ n)

Shl(a, n) == a * (2 ^ n)

---------------------------------------------------------------------------
(* The bytearray cpu_memory.  It is kept as the function of its non-zero   *)
(* bytes (every other byte is 0), so that equal memories are equal values. *)

\* Python's index rule for a sequence of MAX_MEMORY items.
IndexOk(a) == a >= -MAX_MEMORY /\ a < MAX_MEMORY

Addr(a) == IF a < 0 THEN a + MAX_MEMORY ELSE a

MemRead(m, a) == IF Addr(a) \in DOMAIN m THEN m[Addr(a)] ELSE 0

MemWrite(m, a, b) ==
    IF b = 0
    THEN [x \in (DOMAIN m) \ {Addr(a)} |-> m[x]]
    ELSE [x \in (DOMAIN m) \cup {Addr(a)} |-> IF x = Addr(a) THEN b ELSE m[x]]

\* A bytearray item takes an integer in 0..255 and nothing else.
ByteOk(b) == b >= 0 /\ b <= 255

EmptyMemory == [x \in {} |-> 0]

---------------------------------------------------------------------------
(* State                                                                   *)

VARIABLES
    v,                  \* cpu_registers['v']: the registers V0..VF
    index,              \* cpu_registers['index']
    sp,                 \* cpu_registers['sp']
    pc,                 \* cpu_registers['pc']
    rpl,                \* cpu_registers['rpl']
    delay,              \* cpu_timers['delay']
    sound,              \* cpu_timers['sound']
    operand,            \* cpu_operand
    mode,               \* cpu_mode
    memory,             \* cpu_memory
    screen_width,       \* Screen.screen_width
    screen_height,      \* Screen.screen_height
    pixels,             \* the lit pixels of Screen.screen_surface, as <<x, y>>
    flips,              \* display.flip() calls made by the last call
    shown,              \* the lit pixels display.flip() last put on show
    keys_pressed,       \* what key.get_pressed() last answered: the keys down
    call,               \* the last call made: its method
    cpu_operator_param, \* the last call's argument: <<>> for None, else <<n>>
    outcome,            \* "ok", or the exception the last call raised
    exc_arg,            \* the op code an UnknownOpCodeException carries
    returned,           \* what the last call returned: <<>> for nothing
    dispatched,         \* the operand the last call dispatched, <<>> if none
    steps,              \* calls made so far
    frames,             \* history: the calls not yet returned from, oldest
                        \* first, each with the pc its handler saw and the
                        \* sp it found
    prev_pixels,        \* history: the lit pixels before the last call
    events,             \* pygame's event queue, oldest first; each event
                        \* with its type and, as history, whether the
                        \* key wait was outstanding when it arrived
    loop                \* where the loop of screen_cpu_connector stands:
                        \* "off" while no loop runs, else "execute",
                        \* "wait", "events", "done" or "raised"

vars == << v, index, sp, pc, rpl, delay, sound, operand, mode, memory,
           screen_width, screen_height, pixels, flips, shown, keys_pressed,
           call, cpu_operator_param, outcome, exc_arg, returned, dispatched, steps,
           frames, prev_pixels, events, loop >>

\* Everything but the event queue and the loop.
machine == << v, index, sp, pc, rpl, delay, sound, operand, mode, memory,
              screen_width, screen_height, pixels, flips, shown, keys_pressed,
              call, cpu_operator_param, outcome, exc_arg, returned, dispatched,
              steps, frames, prev_pixels >>

\* The state as one record, so that a handler is a function of it.
S == [ v |-> v, index |-> index, sp |-> sp, pc |-> pc, rpl |-> rpl,
       delay |-> delay, sound |-> sound, operand |-> operand, mode |-> mode,
       memory |-> memory, screen_width |-> screen_width,
       screen_height |-> screen_height, pixels |-> pixels, flips |-> flips,
       shown |-> shown,
       keys_pressed |-> keys_pressed, call |-> call,
       cpu_operator_param |-> cpu_operator_param, outcome |-> outcome,
       exc_arg |-> exc_arg, returned |-> returned, dispatched |-> dispatched,
       steps |-> steps ]

\* The next state is the record s.
Commit(s) ==
    /\ v' = s.v
    /\ index' = s.index
    /\ sp' = s.sp
    /\ pc' = s.pc
    /\ rpl' = s.rpl
    /\ delay' = s.delay
    /\ sound' = s.sound
    /\ operand' = s.operand
    /\ mode' = s.mode
    /\ memory' = s.memory
    /\ screen_width' = s.screen_width
    /\ screen_height' = s.screen_height
    /\ pixels' = s.pixels
    /\ flips' = s.flips
    /\ shown' = s.shown
    /\ keys_pressed' = s.keys_pressed
    /\ call' = s.call
    /\ cpu_operator_param' = s.cpu_operator_param
    /\ outcome' = s.outcome
    /\ exc_arg' = s.exc_arg
    /\ returned' = s.returned
    /\ dispatched' = s.dispatched
    /\ steps' = s.steps

\* A call of method m begins: nothing returned or raised yet.
Begin(m, p) ==
    [S EXCEPT !.call = m, !.cpu_operator_param = p, !.outcome = "ok",
              !.exc_arg = <<>>, !.returned = <<>>, !.dispatched = <<>>,
              !.flips = 0, !.steps = steps + 1]

\* The call raises exception e: the state stays as the code left it.
Raise(s, e) == [s EXCEPT !.outcome = e]

ZeroRegisters == [r \in 0 .. NUM_REGISTERS - 1 |-> 0]

\* cpu_reset without its line for the RPL registers.
cpu_reset_keeps_rpl(s) ==
    [s EXCEPT !.v = ZeroRegisters, !.pc = PROGRAM_COUNTER_START,
              !.sp = STACK_POINTER_START, !.index = 0,
              !.delay = 0, !.sound = 0]

\* CPU.cpu_reset
cpu_reset(s) ==
    [s EXCEPT !.v = ZeroRegisters, !.pc = PROGRAM_COUNTER_START,
              !.sp = STACK_POINTER_START, !.index = 0, !.rpl = ZeroRegisters,
              !.delay = 0, !.sound = 0]

\* Screen(ratio), init_display(), CPU(screen): the state after construction.
Init ==
    /\ v = ZeroRegisters
    /\ index = 0
    /\ sp = STACK_POINTER_START
    /\ pc = PROGRAM_COUNTER_START
    /\ rpl = ZeroRegisters
    /\ delay = 0
    /\ sound = 0
    /\ operand = 0
    /\ mode = MODE_NORMAL
    /\ memory = EmptyMemory
    /\ screen_width = SCREEN_WIDTH(MODE_NORMAL)
    /\ screen_height = SCREEN_HEIGHT(MODE_NORMAL)
    /\ pixels = {}
    /\ flips = 1
    /\ shown = {}
    /\ keys_pressed = {}
    /\ call = "__init__"
    /\ cpu_operator_param = <<>>
    /\ outcome = "ok"
    /\ exc_arg = <<>>
    /\ returned = <<>>
    /\ dispatched = <<>>
    /\ steps = 0
    /\ frames = <<>>
    /\ prev_pixels = {}
    /\ events = <<>>
    /\ loop = "off"


---------------------------------------------------------------------------
(* Handlers: each is the method of the same name, as a function of the     *)
(* state record.  s.operand is the operand being executed.                 *)

SetReg(s, r, val) == [s EXCEPT !.v[r] = val]

\* 1nnn - JUMP nnn
cpu_jump_to_address(s) == [s EXCEPT !.pc = BitAnd(s.operand, ADDRESS_13)]

\* CALL storing the high byte of pc first and the low byte second.
cpu_jump_to_subroutine_high_byte_first(s) ==
    IF ~IndexOk(s.sp) THEN Raise(s, "IndexError")
    ELSE LET a == [s EXCEPT !.memory = MemWrite(s.memory, s.sp,
                                                Shr(BitAnd(s.pc, ADDRESS_14), 8)),
                            !.sp = s.sp + 1]
         IN  IF ~IndexOk(a.sp) THEN Raise(a, "IndexError")
             ELSE [a EXCEPT !.memory = MemWrite(a.memory, a.sp,
                                                BitAnd(a.pc, ADDRESS_2)),
                            !.sp = a.sp + 1,
                            !.pc = BitAnd(a.operand, ADDRESS_13)]

\* 2nnn - CALL nnn
cpu_jump_to_subroutine(s) ==
    IF ~IndexOk(s.sp) THEN Raise(s, "IndexError")
    ELSE LET a == [s EXCEPT !.memory = MemWrite(s.memory, s.sp, BitAnd(s.pc, ADDRESS_2)),
                            !.sp = s.sp + 1]
         IN  IF ~IndexOk(a.sp) THEN Raise(a, "IndexError")
             ELSE [a EXCEPT !.memory = MemWrite(a.memory, a.sp,
                                                Shr(BitAnd(a.pc, ADDRESS_14), 8)),
                            !.sp = a.sp + 1,
                            !.pc = BitAnd(a.operand, ADDRESS_13)]

\* SKE adding 4 to pc on a match, as if the fetch had not advanced it.
cpu_skip_if_reg_equal_val_adds_4(s) ==
    LET cpu_source == Shr(BitAnd(s.operand, ADDRESS_3), 8)
    IN  IF s.v[cpu_source] = BitAnd(s.operand, ADDRESS_2)
        THEN [s EXCEPT !.pc = s.pc + 4]
        ELSE s

\* 3snn - SKE Vs, nn
cpu_skip_if_reg_equal_val(s) ==
    LET cpu_source == Shr(BitAnd(s.operand, ADDRESS_3), 8)
    IN  IF s.v[cpu_source] = BitAnd(s.operand, ADDRESS_2)
        THEN [s EXCEPT !.pc = s.pc + 2]
        ELSE s

\* 4snn - SKNE Vs, nn
cpu_skip_if_reg_not_equal_val(s) ==
    LET cpu_source == Shr(BitAnd(s.operand, ADDRESS_3), 8)
    IN  IF s.v[cpu_source] # BitAnd(s.operand, ADDRESS_2)
        THEN [s EXCEPT !.pc = s.pc + 2]
        ELSE s

\* 5st0 - SKE Vs, Vt
cpu_skip_if_reg_equal_reg(s) ==
    LET cpu_source == Shr(BitAnd(s.operand, ADDRESS_3), 8)
        cpu_target == Shr(BitAnd(s.operand, ADDRESS_4), 4)
    IN  IF s.v[cpu_source] = s.v[cpu_target]
        THEN [s EXCEPT !.pc = s.pc + 2]
        ELSE s

\* 6snn - LOAD Vs, nn
cpu_move_value_to_reg(s) ==
    LET cpu_target == Shr(BitAnd(s.operand, ADDRESS_3), 8)
    IN  SetReg(s, cpu_target, BitAnd(s.operand, ADDRESS_2))

\* 7snn - ADD Vs, nn
cpu_add_value_to_reg(s) ==
    LET cpu_target == Shr(BitAnd(s.operand, ADDRESS_3), 8)
        temp == s.v[cpu_target] + BitAnd(s.operand, ADDRESS_2)
    IN  SetReg(s, cpu_target, IF temp < 256 THEN temp ELSE temp - 256)

\* 8st0 - LOAD Vs, Vt
cpu_move_reg_into_reg(s) ==
    LET cpu_target == Shr(BitAnd(s.operand, ADDRESS_3), 8)
        cpu_source == Shr(BitAnd(s.operand, ADDRESS_4), 4)
    IN  SetReg(s, cpu_target, s.v[cpu_source])

\* OR that clears VF after the result, as the first CHIP-8 interpreter did.
cpu_logical_or_resets_vf(s) ==
    LET cpu_target == Shr(BitAnd(s.operand, ADDRESS_3), 8)
        cpu_source == Shr(BitAnd(s.operand, ADDRESS_4), 4)
    IN  SetReg(SetReg(s, cpu_target, BitOr(s.v[cpu_target], s.v[cpu_source])), 15, 0)

\* 8ts1 - OR Vs, Vt
cpu_logical_or(s) ==
    LET cpu_target == Shr(BitAnd(s.operand, ADDRESS_3), 8)
        cpu_source == Shr(BitAnd(s.operand, ADDRESS_4), 4)
    IN  SetReg(s, cpu_target, BitOr(s.v[cpu_target], s.v[cpu_source]))

\* 8ts2 - AND Vs, Vt
cpu_logical_and(s) ==
    LET cpu_target == Shr(BitAnd(s.operand, ADDRESS_3), 8)
        cpu_source == Shr(BitAnd(s.operand, ADDRESS_4), 4)
    IN  SetReg(s, cpu_target, BitAnd(s.v[cpu_target], s.v[cpu_source]))

\* 8ts3 - XOR Vs, Vt
cpu_exclusive_or(s) ==
    LET cpu_target == Shr(BitAnd(s.operand, ADDRESS_3), 8)
        cpu_source == Shr(BitAnd(s.operand, ADDRESS_4), 4)
    IN  SetReg(s, cpu_target, BitXor(s.v[cpu_target], s.v[cpu_source]))

\* ADD with the carry test written as temp > 256: a sum of exactly 256 is
\* then stored unwrapped, with no carry.
cpu_add_reg_to_reg_carry_above_256(s) ==
    LET cpu_target == Shr(BitAnd(s.operand, ADDRESS_3), 8)
        cpu_source == Shr(BitAnd(s.operand, ADDRESS_4), 4)
        temp == s.v[cpu_target] + s.v[cpu_source]
    IN  IF temp > 256
        THEN SetReg(SetReg(s, cpu_target, temp - 256), 15, 1)
        ELSE SetReg(SetReg(s, cpu_target, temp), 15, 0)

\* 8ts4 - ADD Vt, Vs: the sum is stored, then the carry flag.
cpu_add_reg_to_reg(s) ==
    LET cpu_target == Shr(BitAnd(s.operand, ADDRESS_3), 8)
        cpu_source == Shr(BitAnd(s.operand, ADDRESS_4), 4)
        temp == s.v[cpu_target] + s.v[cpu_source]
    IN  IF temp > 255
        THEN SetReg(SetReg(s, cpu_target, temp - 256), 15, 1)
        ELSE SetReg(SetReg(s, cpu_target, temp), 15, 0)

\* 8ts5 - SUB Vt, Vs: the flag is stored, then the difference.
cpu_subtract_reg_from_reg(s) ==
    LET cpu_target == Shr(BitAnd(s.operand, ADDRESS_3), 8)
        cpu_source == Shr(BitAnd(s.operand, ADDRESS_4), 4)
        cpu_source_reg == s.v[cpu_source]
        cpu_target_reg == s.v[cpu_target]
    IN  IF cpu_target_reg > cpu_source_reg
        THEN SetReg(SetReg(s, 15, 1), cpu_target, cpu_target_reg - cpu_source_reg)
        ELSE SetReg(SetReg(s, 15, 0), cpu_target,
                    256 + cpu_target_reg - cpu_source_reg)

\* 8s06 - SHR Vs
cpu_right_shift_reg(s) ==
    LET cpu_source == Shr(BitAnd(s.operand, ADDRESS_3), 8)
        cpu_bit_zero == BitAnd(s.v[cpu_source], 1)
    IN  SetReg(SetReg(s, cpu_source, Shr(s.v[cpu_source], 1)), 15, cpu_bit_zero)

\* 8ts7 - SUBN Vt, Vs: the flag is stored, then the difference.
cpu_subtract_reg_from_reg1(s) ==
    LET cpu_target == Shr(BitAnd(s.operand, ADDRESS_3), 8)
        cpu_source == Shr(BitAnd(s.operand, ADDRESS_4), 4)
        cpu_source_reg == s.v[cpu_source]
        cpu_target_reg == s.v[cpu_target]
    IN  IF cpu_source_reg > cpu_target_reg
        THEN SetReg(SetReg(s, 15, 1), cpu_target, cpu_source_reg - cpu_target_reg)
        ELSE SetReg(SetReg(s, 15, 0), cpu_target,
                    256 + cpu_source_reg - cpu_target_reg)

\* 8s0E - SHL Vs: the bit is taken with (v & 0x80) >> 8, the shift is not masked.
cpu_left_shift_reg(s) ==
    LET cpu_source == Shr(BitAnd(s.operand, ADDRESS_3), 8)
        cpu_bit_seven == Shr(BitAnd(s.v[cpu_source], 128), 8)
    IN  SetReg(SetReg(s, cpu_source, Shl(s.v[cpu_source], 1)), 15, cpu_bit_seven)

\* 9st0 - SKNE Vs, Vt
cpu_skip_if_reg_not_equal_reg(s) ==
    LET cpu_source == Shr(BitAnd(s.operand, ADDRESS_3), 8)
        cpu_target == Shr(BitAnd(s.operand, ADDRESS_4), 4)
    IN  IF s.v[cpu_source] # s.v[cpu_target]
        THEN [s EXCEPT !.pc = s.pc + 2]
        ELSE s

\* Annn - LOAD I, nnn
cpu_load_index_reg_with_value(s) ==
    [s EXCEPT !.index = BitAnd(s.operand, ADDRESS_13)]

\* Bnnn - JUMP [I] + nnn
cpu_jump_to_index_plus_value(s) ==
    [s EXCEPT !.pc = s.index + BitAnd(s.operand, ADDRESS_13)]

\* Ctnn - RAND Vt, nn; rand is what randint(0, 255) answers.
cpu_generate_random_number(s, rand) ==
    LET cpu_value == BitAnd(s.operand, ADDRESS_2)
        cpu_target == Shr(BitAnd(s.operand, ADDRESS_3), 8)
    IN  SetReg(s, cpu_target, BitAnd(cpu_value, rand))

---------------------------------------------------------------------------
(* Screen (screen.py), on the state record                                 *)

\* Screen.get_screen_pixel: 0 for the colour of an unlit pixel, else 1.
get_screen_pixel(s, x, y) == IF <<x, y>> \in s.pixels THEN 1 ELSE 0

\* Screen.draw_screen_pixel: no flip.
draw_screen_pixel(s, x, y, pixel_color) ==
    IF pixel_color = 1
    THEN [s EXCEPT !.pixels = s.pixels \cup {<<x, y>>}]
    ELSE [s EXCEPT !.pixels = s.pixels \ {<<x, y>>}]

\* Screen.clear_screen
clear_screen(s) == [s EXCEPT !.pixels = {}]

\* Screen.update_screen
update_screen(s) == [s EXCEPT !.flips = s.flips + 1, !.shown = s.pixels]

\* Screen.init_display: a new surface, filled with colour 0 and flipped.
init_display(s) == [s EXCEPT !.pixels = {}, !.flips = s.flips + 1, !.shown = {}]

\* Screen.set_screen_extended without its call of init_display: the pixels of
\* the old display stay.
set_screen_extended_without_init_display(s) ==
    [s EXCEPT !.screen_height = SCREEN_HEIGHT(MODE_EXTENDED),
              !.screen_width = SCREEN_WIDTH(MODE_EXTENDED)]

\* Screen.set_screen_extended
set_screen_extended(s) ==
    init_display([s EXCEPT !.screen_height = SCREEN_HEIGHT(MODE_EXTENDED),
                           !.screen_width = SCREEN_WIDTH(MODE_EXTENDED)])

\* Screen.set_screen_normal
set_screen_normal(s) ==
    init_display([s EXCEPT !.screen_height = SCREEN_HEIGHT(MODE_NORMAL),
                           !.screen_width = SCREEN_WIDTH(MODE_NORMAL)])

(* The three scroll methods call self.get_pixel and self.draw_pixel, which  *)
(* Screen does not define (its methods are get_screen_pixel and             *)
(* draw_screen_pixel): the first such call raises AttributeError, before    *)
(* any pixel is read or written.                                            *)

\* Screen.scroll_screen_down
scroll_screen_down(s, line_number_count) ==
    IF (s.screen_height - line_number_count >= 0 /\ s.screen_width > 0)
       \/ (line_number_count > 0 /\ s.screen_width > 0)
    THEN Raise(s, "AttributeError")
    ELSE [s EXCEPT !.flips = s.flips + 1]

\* Screen.scroll_screen_left
scroll_screen_left(s) ==
    IF s.screen_height > 0 THEN Raise(s, "AttributeError")
    ELSE [s EXCEPT !.flips = s.flips + 1]

\* Screen.scroll_screen_right
scroll_screen_right(s) ==
    IF s.screen_height > 0 THEN Raise(s, "AttributeError")
    ELSE [s EXCEPT !.flips = s.flips + 1]

---------------------------------------------------------------------------
(* The 0x0 group and the sprite blitter                                    *)

(* cpu_clear_return is a chain of seven tests on the operand's low byte,  *)
(* each an `if` of its own.  Every stage below is one of them; a stage    *)
(* is skipped once an earlier one has raised.                              *)

\* if cpu_sub_operation == ADDRESS_5: 00Cn, scroll n lines down
ClearReturnScrollDown(s) ==
    IF BitAnd(BitAnd(s.operand, ADDRESS_2), ADDRESS_4) = ADDRESS_5
    THEN scroll_screen_down(s, BitAnd(s.operand, ADDRESS_6))
    ELSE s

\* if cpu_operation == ADDRESS_7: 00E0, clear the display
ClearReturnClear(s) ==
    IF s.outcome = "ok" /\ BitAnd(s.operand, ADDRESS_2) = ADDRESS_7
    THEN clear_screen(s)
    ELSE s

\* The second pop of 00EE: sp is down by one, pc holds the high byte.
ReturnLowByte(s) ==
    IF ~IndexOk(s.sp) THEN Raise(s, "IndexError")
    ELSE [s EXCEPT !.pc = s.pc + MemRead(s.memory, s.sp)]

\* The first pop of 00EE, on the state whose sp is already down by one.
ReturnHighByte(s) ==
    IF ~IndexOk(s.sp) THEN Raise(s, "IndexError")
    ELSE ReturnLowByte([s EXCEPT !.pc = Shl(MemRead(s.memory, s.sp), 8),
                                 !.sp = s.sp - 1])

\* if cpu_operation == ADDRESS_8: 00EE, return from subroutine
ClearReturnReturn(s) ==
    IF s.outcome = "ok" /\ BitAnd(s.operand, ADDRESS_2) = ADDRESS_8
    THEN ReturnHighByte([s EXCEPT !.sp = s.sp - 1])
    ELSE s

\* if cpu_operation == ADDRESS_9: 00FB, scroll right
ClearReturnScrollRight(s) ==
    IF s.outcome = "ok" /\ BitAnd(s.operand, ADDRESS_2) = ADDRESS_9
    THEN scroll_screen_right(s)
    ELSE s

\* if cpu_operation == ADDRESS_10: 00FC, scroll left
ClearReturnScrollLeft(s) ==
    IF s.outcome = "ok" /\ BitAnd(s.operand, ADDRESS_2) = ADDRESS_10
    THEN scroll_screen_left(s)
    ELSE s

\* 00FD taken for 00FF: the branch of ADDRESS_11 switches to extended mode.
ClearReturnExitSetsExtended(s) ==
    IF s.outcome = "ok" /\ BitAnd(s.operand, ADDRESS_2) = ADDRESS_11
    THEN [set_screen_extended(s) EXCEPT !.mode = MODE_EXTENDED]
    ELSE s

\* if cpu_operation == ADDRESS_11: 00FD, pass
ClearReturnExit(s) == s

\* if cpu_operation == ADDRESS_12: 00FE, normal mode
ClearReturnNormal(s) ==
    IF s.outcome = "ok" /\ BitAnd(s.operand, ADDRESS_2) = ADDRESS_12
    THEN [set_screen_normal(s) EXCEPT !.mode = MODE_NORMAL]
    ELSE s

\* if cpu_operation == ADDRESS_2: 00FF, extended mode
ClearReturnExtended(s) ==
    IF s.outcome = "ok" /\ BitAnd(s.operand, ADDRESS_2) = ADDRESS_2
    THEN [set_screen_extended(s) EXCEPT !.mode = MODE_EXTENDED]
    ELSE s

\* 0nnn
cpu_clear_return(s) ==
    ClearReturnExtended(ClearReturnNormal(ClearReturnExit(ClearReturnScrollLeft(
        ClearReturnScrollRight(ClearReturnReturn(ClearReturnClear(
            ClearReturnScrollDown(s))))))))

\* bin(byte)[2:].zfill(8)[i]: the bits of a byte, most significant first.
ColorBit(byte, i) == Shr(byte, 7 - i) % 2

\* The body of the pixel loops without its elif branch: a lit pixel under a
\* clear sprite bit is drawn with the sprite bit, which erases it.
BlitPixelNoToggle(s, x, y, cpu_color, extended) ==
    IF cpu_color = 1 /\ get_screen_pixel(s, x, y) = 1
    THEN draw_screen_pixel(
             SetReg(s, 15, IF extended THEN 1 ELSE BitOr(s.v[15], 1)), x, y, 0)
    ELSE draw_screen_pixel(s, x, y, cpu_color)

\* The body of the pixel loops with a collision that leaves the pixel lit.
BlitPixelKeepsLit(s, x, y, cpu_color, extended) ==
    IF cpu_color = 1 /\ get_screen_pixel(s, x, y) = 1
    THEN SetReg(s, 15, IF extended THEN 1 ELSE BitOr(s.v[15], 1))
    ELSE IF cpu_color = 0 /\ get_screen_pixel(s, x, y) = 1
    THEN draw_screen_pixel(s, x, y, 1)
    ELSE draw_screen_pixel(s, x, y, cpu_color)

\* The body of the pixel loops, at (x, y) with sprite bit cpu_color; on a
\* collision cpu_draw_normal stores VF | 1 and cpu_draw_extended stores 1.
BlitPixel(s, x, y, cpu_color, extended) ==
    LET cpu_current_color == get_screen_pixel(s, x, y)
    IN  IF cpu_color = 1 /\ cpu_current_color = 1
        THEN draw_screen_pixel(
                 SetReg(s, 15, IF extended THEN 1 ELSE BitOr(s.v[15], 1)), x, y, 0)
        ELSE IF cpu_color = 0 /\ cpu_current_color = 1
        THEN draw_screen_pixel(s, x, y, 1)
        ELSE draw_screen_pixel(s, x, y, cpu_color)

\* The loop over cpu_x_index of one sprite byte, from cpu_x_index on; the
\* byte's first column is x_base.
RECURSIVE BlitByteFrom(_, _, _, _, _, _)
BlitByteFrom(s, x_base, cpu_y_coord, byte, extended, cpu_x_index) ==
    IF cpu_x_index >= 8 THEN s
    ELSE BlitByteFrom(
             BlitPixel(s, (x_base + cpu_x_index) % s.screen_width, cpu_y_coord,
                       ColorBit(byte, cpu_x_index), extended),
             x_base, cpu_y_coord, byte, extended, cpu_x_index + 1)

\* The loop over cpu_y_index with update_screen() indented into the loop: the
\* display is flipped after every row.
RECURSIVE DrawNormalFromFlipsPerRow(_, _, _, _, _)
DrawNormalFromFlipsPerRow(s, cpu_x_pos, cpu_y_pos, cpu_num_bytes, cpu_y_index) ==
    IF cpu_y_index >= cpu_num_bytes THEN s
    ELSE IF ~IndexOk(s.index + cpu_y_index) THEN Raise(s, "IndexError")
    ELSE DrawNormalFromFlipsPerRow(
             update_screen(
                 BlitByteFrom(s, cpu_x_pos,
                              (cpu_y_pos + cpu_y_index) % s.screen_height,
                              MemRead(s.memory, s.index + cpu_y_index), FALSE, 0)),
             cpu_x_pos, cpu_y_pos, cpu_num_bytes, cpu_y_index + 1)

\* The loop over cpu_y_index of cpu_draw_normal, from cpu_y_index on.
RECURSIVE DrawNormalFrom(_, _, _, _, _)
DrawNormalFrom(s, cpu_x_pos, cpu_y_pos, cpu_num_bytes, cpu_y_index) ==
    IF cpu_y_index >= cpu_num_bytes THEN update_screen(s)
    ELSE IF ~IndexOk(s.index + cpu_y_index) THEN Raise(s, "IndexError")
    ELSE DrawNormalFrom(
             BlitByteFrom(s, cpu_x_pos, (cpu_y_pos + cpu_y_index) % s.screen_height,
                          MemRead(s.memory, s.index + cpu_y_index), FALSE, 0),
             cpu_x_pos, cpu_y_pos, cpu_num_bytes, cpu_y_index + 1)

cpu_draw_normal(s, cpu_x_pos, cpu_y_pos, cpu_num_bytes) ==
    DrawNormalFrom(s, cpu_x_pos, cpu_y_pos, cpu_num_bytes, 0)

\* The loops over cpu_y_index and cpu_x_byte of cpu_draw_extended, from the
\* k-th byte on: row k \div 2, byte k % 2 of the row.
RECURSIVE DrawExtendedFrom(_, _, _, _, _)
DrawExtendedFrom(s, cpu_x_pos, cpu_y_pos, cpu_num_bytes, k) ==
    LET cpu_y_index == k \div 2
        cpu_x_byte == k % 2
        at == s.index + (cpu_y_index * 2) + cpu_x_byte
    IN  IF cpu_y_index >= cpu_num_bytes THEN update_screen(s)
        ELSE IF ~IndexOk(at) THEN Raise(s, "IndexError")
        ELSE DrawExtendedFrom(
                 BlitByteFrom(s, cpu_x_pos + (cpu_x_byte * 8),
                              (cpu_y_pos + cpu_y_index) % s.screen_height,
                              MemRead(s.memory, at), TRUE, 0),
                 cpu_x_pos, cpu_y_pos, cpu_num_bytes, k + 1)

cpu_draw_extended(s, cpu_x_pos, cpu_y_pos, cpu_num_bytes) ==
    DrawExtendedFrom(s, cpu_x_pos, cpu_y_pos, cpu_num_bytes, 0)

\* Dxyn choosing the 16x16 path on cpu_num_bytes alone, whatever the mode.
cpu_draw_sprite_ignores_mode(s) ==
    IF BitAnd(s.operand, ADDRESS_6) = 0
    THEN cpu_draw_extended(SetReg(s, 15, 0),
                           s.v[Shr(BitAnd(s.operand, ADDRESS_3), 8)],
                           s.v[Shr(BitAnd(s.operand, ADDRESS_4), 4)], 16)
    ELSE cpu_draw_normal(SetReg(s, 15, 0),
                         s.v[Shr(BitAnd(s.operand, ADDRESS_3), 8)],
                         s.v[Shr(BitAnd(s.operand, ADDRESS_4), 4)],
                         BitAnd(s.operand, ADDRESS_6))

\* Dxyn - DRAW x, y, num_bytes
cpu_draw_sprite(s) ==
    LET cpu_x_source == Shr(BitAnd(s.operand, ADDRESS_3), 8)
        cpu_y_source == Shr(BitAnd(s.operand, ADDRESS_4), 4)
        cpu_x_pos == s.v[cpu_x_source]
        cpu_y_pos == s.v[cpu_y_source]
        cpu_num_bytes == BitAnd(s.operand, ADDRESS_6)
        cleared == SetReg(s, 15, 0)
    IN  IF s.mode = MODE_EXTENDED /\ cpu_num_bytes = 0
        THEN cpu_draw_extended(cleared, cpu_x_pos, cpu_y_pos, 16)
        ELSE cpu_draw_normal(cleared, cpu_x_pos, cpu_y_pos, cpu_num_bytes)

---------------------------------------------------------------------------
(* The keypad group.  keys is what key.get_pressed() answers: the CHIP-8   *)
(* keys whose mapped keyboard key is down.                                 *)

\* Both routines with the test of SKPR: SKUP skips on a key that is down.
cpu_keyboard_routines_skup_as_skpr(s, keys) ==
    LET cpu_operation == BitAnd(s.operand, ADDRESS_2)
        cpu_source == Shr(BitAnd(s.operand, ADDRESS_3), 8)
        cpu_key_to_check == s.v[cpu_source]
        polled == [s EXCEPT !.keys_pressed = keys]
    IN  IF cpu_operation \notin {158, 161} THEN polled
        ELSE IF cpu_key_to_check \notin KEY_MAPPINGS THEN Raise(polled, "KeyError")
        ELSE IF cpu_key_to_check \in keys THEN [polled EXCEPT !.pc = polled.pc + 2]
        ELSE polled

\* Es9E - SKPR Vs, EsA1 - SKUP Vs; any other low byte falls through both tests.
cpu_keyboard_routines(s, keys) ==
    LET cpu_operation == BitAnd(s.operand, ADDRESS_2)
        cpu_source == Shr(BitAnd(s.operand, ADDRESS_3), 8)
        cpu_key_to_check == s.v[cpu_source]
        polled == [s EXCEPT !.keys_pressed = keys]
        a == IF cpu_operation = 158
             THEN IF cpu_key_to_check \notin KEY_MAPPINGS THEN Raise(polled, "KeyError")
                  ELSE IF cpu_key_to_check \in keys
                  THEN [polled EXCEPT !.pc = polled.pc + 2]
                  ELSE polled
             ELSE polled
    IN  IF a.outcome = "ok" /\ cpu_operation = 161
        THEN IF cpu_key_to_check \notin KEY_MAPPINGS THEN Raise(a, "KeyError")
             ELSE IF cpu_key_to_check \notin keys
             THEN [a EXCEPT !.pc = a.pc + 2]
             ELSE a
        ELSE a

---------------------------------------------------------------------------
(* The 0xF group                                                           *)

\* LOAD Vt, DELAY with a tick of the delay timer inside the instruction.
cpu_move_delay_timer_into_reg_after_tick(s) ==
    LET cpu_target == Shr(BitAnd(s.operand, ADDRESS_3), 8)
        ticked == IF s.delay # 0 THEN s.delay - 1 ELSE s.delay
    IN  SetReg([s EXCEPT !.delay = ticked], cpu_target, ticked)

\* Ft07 - LOAD Vt, DELAY
cpu_move_delay_timer_into_reg(s) ==
    LET cpu_target == Shr(BitAnd(s.operand, ADDRESS_3), 8)
    IN  SetReg(s, cpu_target, s.delay)

\* The least element of a non-empty set of integers.
Least(K) == CHOOSE k \in K : \A j \in K : k <= j

(* Ft0A - KEYD Vt, as one step: the events the loop discards are skipped,   *)
(* and keys is what key.get_pressed() answers at the KEYDOWN event that     *)
(* finds a mapped key down.  KEY_MAPPINGS.items() runs through the keys     *)
(* 0x0..0xF in rising order, so the least key that is down is stored.       *)
cpu_wait_for_keypress(s, keys) ==
    LET cpu_target == Shr(BitAnd(s.operand, ADDRESS_3), 8)
    IN  SetReg([s EXCEPT !.keys_pressed = keys], cpu_target,
               Least(keys \cap KEY_MAPPINGS))

\* Fs15 - LOAD DELAY, Vs
cpu_move_reg_into_delay_timer(s) ==
    LET cpu_source == Shr(BitAnd(s.operand, ADDRESS_3), 8)
    IN  [s EXCEPT !.delay = s.v[cpu_source]]

\* Fs18 storing into the delay timer, as Fs15 does.
cpu_move_reg_into_sound_timer_sets_delay(s) ==
    [s EXCEPT !.delay = s.v[Shr(BitAnd(s.operand, ADDRESS_3), 8)]]

\* Fs18 - LOAD SOUND, Vs
cpu_move_reg_into_sound_timer(s) ==
    LET cpu_source == Shr(BitAnd(s.operand, ADDRESS_3), 8)
    IN  [s EXCEPT !.sound = s.v[cpu_source]]

\* Fs29 - LOAD I, Vs
cpu_load_index_with_reg_sprite(s) ==
    LET cpu_source == Shr(BitAnd(s.operand, ADDRESS_3), 8)
    IN  [s EXCEPT !.index = s.v[cpu_source] * 5]

\* Fs30 - LOAD I, Vs
cpu_load_index_with_extended_reg_sprite(s) ==
    LET cpu_source == Shr(BitAnd(s.operand, ADDRESS_3), 8)
    IN  [s EXCEPT !.index = s.v[cpu_source] * 10]

\* Fs1E - ADD I, Vs
cpu_add_reg_into_index(s) ==
    LET cpu_source == Shr(BitAnd(s.operand, ADDRESS_3), 8)
    IN  [s EXCEPT !.index = s.index + s.v[cpu_source]]

\* The decimal digits of n >= 0, most significant first.
RECURSIVE DecDigits(_)
DecDigits(n) == IF n < 10 THEN <<n>> ELSE Append(DecDigits(n \div 10), n % 10)

\* Three digits of n >= 0 without the padding on the left: the digits of a
\* value below 100 start at the first place and zeros follow.
Format03dPaddedRight(n) ==
    LET d == DecDigits(n)
    IN  IF Len(d) = 1 THEN d \o <<0, 0>>
        ELSE IF Len(d) = 2 THEN d \o <<0>>
        ELSE d

\* '{:03d}'.format(n) for n >= 0, as digits: padded with zeros to three.
Format03d(n) ==
    LET d == DecDigits(n)
    IN  IF Len(d) = 1 THEN <<0, 0>> \o d
        ELSE IF Len(d) = 2 THEN <<0>> \o d
        ELSE d

\* cpu_memory[a] = b: the index is checked, then the value.
StoreByte(s, a, b) ==
    IF ~IndexOk(a) THEN Raise(s, "IndexError")
    ELSE IF ~ByteOk(b) THEN Raise(s, "ValueError")
    ELSE [s EXCEPT !.memory = MemWrite(s.memory, a, b)]

\* Fs33 - BCD; a negative value formats with a leading '-', which int() refuses.
cpu_store_bcd_in_memory(s) ==
    LET cpu_source == Shr(BitAnd(s.operand, ADDRESS_3), 8)
        value == s.v[cpu_source]
        cpu_bcd_value == Format03d(value)
        a == StoreByte(s, s.index, cpu_bcd_value[1])
        b == StoreByte(a, a.index + 1, cpu_bcd_value[2])
    IN  IF value < 0 THEN Raise(s, "ValueError")
        ELSE IF a.outcome # "ok" THEN a
        ELSE IF b.outcome # "ok" THEN b
        ELSE StoreByte(b, b.index + 2, cpu_bcd_value[3])

\* The loop of cpu_store_regs_in_memory, from cpu_counter on.
RECURSIVE StoreRegsFrom(_, _, _)
StoreRegsFrom(s, cpu_source, cpu_counter) ==
    IF cpu_counter > cpu_source THEN s
    ELSE LET a == StoreByte(s, s.index + cpu_counter, s.v[cpu_counter])
         IN  IF a.outcome # "ok" THEN a
             ELSE StoreRegsFrom(a, cpu_source, cpu_counter + 1)

\* Fs55 - STOR [I], Vs
cpu_store_regs_in_memory(s) ==
    StoreRegsFrom(s, Shr(BitAnd(s.operand, ADDRESS_3), 8), 0)

\* The loop of cpu_read_regs_from_memory, from cpu_counter on.
RECURSIVE ReadRegsFrom(_, _, _)
ReadRegsFrom(s, cpu_source, cpu_counter) ==
    IF cpu_counter > cpu_source THEN s
    ELSE IF ~IndexOk(s.index + cpu_counter) THEN Raise(s, "IndexError")
    ELSE ReadRegsFrom(SetReg(s, cpu_counter, MemRead(s.memory, s.index + cpu_counter)),
                      cpu_source, cpu_counter + 1)

\* Fs65 - LOAD Vs, [I]
cpu_read_regs_from_memory(s) ==
    ReadRegsFrom(s, Shr(BitAnd(s.operand, ADDRESS_3), 8), 0)

\* SRPL with range(cpu_source) as its loop: VX itself is not stored.
cpu_store_regs_in_rpl_below_source(s) ==
    LET cpu_source == Shr(BitAnd(s.operand, ADDRESS_3), 8)
    IN  [s EXCEPT !.rpl = [r \in 0 .. NUM_REGISTERS - 1 |->
                              IF r < cpu_source THEN s.v[r] ELSE s.rpl[r]]]

\* Fs75 - SRPL Vs
cpu_store_regs_in_rpl(s) ==
    LET cpu_source == Shr(BitAnd(s.operand, ADDRESS_3), 8)
    IN  [s EXCEPT !.rpl = [r \in 0 .. NUM_REGISTERS - 1 |->
                              IF r <= cpu_source THEN s.v[r] ELSE s.rpl[r]]]

\* Fs85 - LRPL Vs
cpu_read_regs_from_rpl(s) ==
    LET cpu_source == Shr(BitAnd(s.operand, ADDRESS_3), 8)
    IN  [s EXCEPT !.v = [r \in 0 .. NUM_REGISTERS - 1 |->
                            IF r <= cpu_source THEN s.rpl[r] ELSE s.v[r]]]

---------------------------------------------------------------------------
(* Dispatch.  A lookup table maps a key to a method, named here by its     *)
(* name; a key the table does not hold is a KeyError.                      *)

\* What a call draws from outside the CPU: the keyboard and randint.
NoEnv == [keys |-> {}, rand |-> 0]

cpu_logical_operation_lookup ==
    [k \in {0, 1, 2, 3, 4, 5, 6, 7, 14} |->
        CASE k = 0 -> "cpu_move_reg_into_reg"
          [] k = 1 -> "cpu_logical_or"
          [] k = 2 -> "cpu_logical_and"
          [] k = 3 -> "cpu_exclusive_or"
          [] k = 4 -> "cpu_add_reg_to_reg"
          [] k = 5 -> "cpu_subtract_reg_from_reg"
          [] k = 6 -> "cpu_right_shift_reg"
          [] k = 7 -> "cpu_subtract_reg_from_reg1"
          [] k = 14 -> "cpu_left_shift_reg"]

cpu_misc_routine_lookup ==
    [k \in {7, 10, 21, 24, 30, 41, 48, 51, 85, 101, 117, 133} |->
        CASE k = 7 -> "cpu_move_delay_timer_into_reg"
          [] k = 10 -> "cpu_wait_for_keypress"
          [] k = 21 -> "cpu_move_reg_into_delay_timer"
          [] k = 24 -> "cpu_move_reg_into_sound_timer"
          [] k = 30 -> "cpu_add_reg_into_index"
          [] k = 41 -> "cpu_load_index_with_reg_sprite"
          [] k = 48 -> "cpu_load_index_with_extended_reg_sprite"
          [] k = 51 -> "cpu_store_bcd_in_memory"
          [] k = 85 -> "cpu_store_regs_in_memory"
          [] k = 101 -> "cpu_read_regs_from_memory"
          [] k = 117 -> "cpu_store_regs_in_rpl"
          [] k = 133 -> "cpu_read_regs_from_rpl"]

cpu_operation_lookup ==
    [k \in 0 .. 15 |->
        CASE k = 0 -> "cpu_clear_return"
          [] k = 1 -> "cpu_jump_to_address"
          [] k = 2 -> "cpu_jump_to_subroutine"
          [] k = 3 -> "cpu_skip_if_reg_equal_val"
          [] k = 4 -> "cpu_skip_if_reg_not_equal_val"
          [] k = 5 -> "cpu_skip_if_reg_equal_reg"
          [] k = 6 -> "cpu_move_value_to_reg"
          [] k = 7 -> "cpu_add_value_to_reg"
          [] k = 8 -> "cpu_execute_logical_instruction"
          [] k = 9 -> "cpu_skip_if_reg_not_equal_reg"
          [] k = 10 -> "cpu_load_index_reg_with_value"
          [] k = 11 -> "cpu_jump_to_index_plus_value"
          [] k = 12 -> "cpu_generate_random_number"
          [] k = 13 -> "cpu_draw_sprite"
          [] k = 14 -> "cpu_keyboard_routines"
          [] k = 15 -> "cpu_misc_routines"]

\* The call method() of a method of the logical table.
CallLogical(method, s) ==
    CASE method = "cpu_move_reg_into_reg" -> cpu_move_reg_into_reg(s)
      [] method = "cpu_logical_or" -> cpu_logical_or(s)
      [] method = "cpu_logical_and" -> cpu_logical_and(s)
      [] method = "cpu_exclusive_or" -> cpu_exclusive_or(s)
      [] method = "cpu_add_reg_to_reg" -> cpu_add_reg_to_reg(s)
      [] method = "cpu_subtract_reg_from_reg" -> cpu_subtract_reg_from_reg(s)
      [] method = "cpu_right_shift_reg" -> cpu_right_shift_reg(s)
      [] method = "cpu_subtract_reg_from_reg1" -> cpu_subtract_reg_from_reg1(s)
      [] method = "cpu_left_shift_reg" -> cpu_left_shift_reg(s)

\* The call method() of a method of the misc table.
CallMisc(method, s, env) ==
    CASE method = "cpu_move_delay_timer_into_reg" -> cpu_move_delay_timer_into_reg(s)
      [] method = "cpu_wait_for_keypress" -> cpu_wait_for_keypress(s, env.keys)
      [] method = "cpu_move_reg_into_delay_timer" -> cpu_move_reg_into_delay_timer(s)
      [] method = "cpu_move_reg_into_sound_timer" -> cpu_move_reg_into_sound_timer(s)
      [] method = "cpu_add_reg_into_index" -> cpu_add_reg_into_index(s)
      [] method = "cpu_load_index_with_reg_sprite" -> cpu_load_index_with_reg_sprite(s)
      [] method = "cpu_load_index_with_extended_reg_sprite" ->
             cpu_load_index_with_extended_reg_sprite(s)
      [] method = "cpu_store_bcd_in_memory" -> cpu_store_bcd_in_memory(s)
      [] method = "cpu_store_regs_in_memory" -> cpu_store_regs_in_memory(s)
      [] method = "cpu_read_regs_from_memory" -> cpu_read_regs_from_memory(s)
      [] method = "cpu_store_regs_in_rpl" -> cpu_store_regs_in_rpl(s)
      [] method = "cpu_read_regs_from_rpl" -> cpu_read_regs_from_rpl(s)

\* The exception raised with the dispatch key in place of the operand.
RaiseUnknownOpCodeWithKey(s) ==
    [s EXCEPT !.outcome = "UnknownOpCodeException",
              !.exc_arg = <<BitAnd(s.operand, ADDRESS_2)>>]

\* raise UnknownOpCodeException(self.cpu_operand)
RaiseUnknownOpCode(s) ==
    [s EXCEPT !.outcome = "UnknownOpCodeException", !.exc_arg = <<s.operand>>]

\* except KeyError: raise UnknownOpCodeException(self.cpu_operand)
ExceptKeyError(r) == IF r.outcome = "KeyError" THEN RaiseUnknownOpCode(r) ELSE r

\* 8xxx: a KeyError of the lookup, or of the handler, becomes the exception.
cpu_execute_logical_instruction(s) ==
    LET cpu_operation == BitAnd(s.operand, ADDRESS_6)
    IN  ExceptKeyError(
            IF cpu_operation \in DOMAIN cpu_logical_operation_lookup
            THEN CallLogical(cpu_logical_operation_lookup[cpu_operation], s)
            ELSE Raise(s, "KeyError"))

\* Fxxx: a KeyError of the lookup, or of the handler, becomes the exception.
cpu_misc_routines(s, env) ==
    LET cpu_operation == BitAnd(s.operand, ADDRESS_2)
    IN  ExceptKeyError(
            IF cpu_operation \in DOMAIN cpu_misc_routine_lookup
            THEN CallMisc(cpu_misc_routine_lookup[cpu_operation], s, env)
            ELSE Raise(s, "KeyError"))

\* The call method() of a method of the top table.
CallOperation(method, s, env) ==
    CASE method = "cpu_clear_return" -> cpu_clear_return(s)
      [] method = "cpu_jump_to_address" -> cpu_jump_to_address(s)
      [] method = "cpu_jump_to_subroutine" -> cpu_jump_to_subroutine(s)
      [] method = "cpu_skip_if_reg_equal_val" -> cpu_skip_if_reg_equal_val(s)
      [] method = "cpu_skip_if_reg_not_equal_val" -> cpu_skip_if_reg_not_equal_val(s)
      [] method = "cpu_skip_if_reg_equal_reg" -> cpu_skip_if_reg_equal_reg(s)
      [] method = "cpu_move_value_to_reg" -> cpu_move_value_to_reg(s)
      [] method = "cpu_add_value_to_reg" -> cpu_add_value_to_reg(s)
      [] method = "cpu_execute_logical_instruction" -> cpu_execute_logical_instruction(s)
      [] method = "cpu_skip_if_reg_not_equal_reg" -> cpu_skip_if_reg_not_equal_reg(s)
      [] method = "cpu_load_index_reg_with_value" -> cpu_load_index_reg_with_value(s)
      [] method = "cpu_jump_to_index_plus_value" -> cpu_jump_to_index_plus_value(s)
      [] method = "cpu_generate_random_number" -> cpu_generate_random_number(s, env.rand)
      [] method = "cpu_draw_sprite" -> cpu_draw_sprite(s)
      [] method = "cpu_keyboard_routines" -> cpu_keyboard_routines(s, env.keys)
      [] method = "cpu_misc_routines" -> cpu_misc_routines(s, env)

\* if cpu_operator_param: None and 0 are false.
Truthy(p) == p # <<>> /\ p[1] # 0

\* The fetch with the two bytes taken low byte first.
FetchOperandLittleEndian(s, p) ==
    IF Truthy(p) THEN [s EXCEPT !.operand = p[1]]
    ELSE IF ~IndexOk(s.pc) THEN Raise(s, "IndexError")
    ELSE LET lo == [s EXCEPT !.operand = MemRead(s.memory, s.pc)]
         IN  IF ~IndexOk(lo.pc + 1) THEN Raise(lo, "IndexError")
             ELSE [lo EXCEPT !.operand = lo.operand + Shl(MemRead(lo.memory, lo.pc + 1), 8),
                             !.pc = lo.pc + 2]

\* The operand of the call: the argument, or two bytes at the program counter.
FetchOperand(s, p) ==
    IF Truthy(p) THEN [s EXCEPT !.operand = p[1]]
    ELSE IF ~IndexOk(s.pc) THEN Raise(s, "IndexError")
    ELSE LET hi == [s EXCEPT !.operand = Shl(MemRead(s.memory, s.pc), 8)]
         IN  IF ~IndexOk(hi.pc + 1) THEN Raise(hi, "IndexError")
             ELSE [hi EXCEPT !.operand = hi.operand + MemRead(hi.memory, hi.pc + 1),
                             !.pc = hi.pc + 2]

\* self.cpu_operation_lookup[cpu_operation](), unless the fetch has raised.
Dispatch(f, env) ==
    IF f.outcome # "ok" THEN f
    ELSE CallOperation(cpu_operation_lookup[Shr(BitAnd(f.operand, ADDRESS_1), 12)],
                       [f EXCEPT !.dispatched = <<f.operand>>], env)

\* return self.cpu_operand, unless the call has raised.
ReturnOperand(r) ==
    IF r.outcome # "ok" THEN r ELSE [r EXCEPT !.returned = <<r.operand>>]

\* CPU.cpu_execute_instruction, called on state s with argument p.
cpu_execute_instruction(s, p, env) ==
    ReturnOperand(Dispatch(FetchOperand(s, p), env))

\* CPU.cpu_decrement_timers
cpu_decrement_timers(s) ==
    LET a == IF s.delay # 0 THEN [s EXCEPT !.delay = s.delay - 1] ELSE s
    IN  IF a.sound # 0 THEN [a EXCEPT !.sound = a.sound - 1] ELSE a

\* The loop of cpu_load_rom over the bytes of the file, from the i-th on.
RECURSIVE LoadRomFrom(_, _, _, _)
LoadRomFrom(s, cpu_romdata, cpu_offset, i) ==
    IF i > Len(cpu_romdata) THEN s
    ELSE LET a == StoreByte(s, cpu_offset + (i - 1), cpu_romdata[i])
         IN  IF a.outcome # "ok" THEN a
             ELSE LoadRomFrom(a, cpu_romdata, cpu_offset, i + 1)

\* CPU.cpu_load_rom, for a file holding the bytes cpu_romdata.
cpu_load_rom(s, cpu_romdata, cpu_offset) == LoadRomFrom(s, cpu_romdata, cpu_offset, 1)

---------------------------------------------------------------------------
(* Inputs of the model                                                     *)

\* The instruction word with the nibbles a, b, c, d, most significant first.
Op(a, b, c, d) == (a * 4096) + (b * 256) + (c * 16) + d

\* The operands passed to, or loaded for, cpu_execute_instruction.
Operands ==
    { Op(0,0,0,0), Op(0,0,14,0), Op(0,0,14,14), Op(0,0,12,1), Op(0,0,15,11), Op(0,0,15,12),
      Op(0,0,15,13), Op(0,0,15,14), Op(0,0,15,15), Op(0,1,2,3),
      Op(1,15,15,15), Op(2,2,0,4),
      Op(3,0,1,0), Op(4,0,1,0), Op(5,0,1,0), Op(9,0,1,0),
      Op(6,0,1,0), Op(6,0,15,15), Op(6,1,8,0), Op(6,1,0,3), Op(6,15,0,5),
      Op(7,0,15,15), Op(7,15,0,1),
      Op(8,0,1,0), Op(8,0,1,1), Op(8,0,1,2), Op(8,0,1,3), Op(8,0,1,4),
      Op(8,0,1,5), Op(8,0,1,6), Op(8,0,1,7), Op(8,0,1,14),
      Op(8,15,1,4), Op(8,15,1,5), Op(8,15,1,6), Op(8,15,1,7), Op(8,15,1,14),
      Op(8,10,11,15),
      Op(10,2,0,3), Op(10,15,15,14), Op(11,0,0,2), Op(12,0,0,3),
      Op(13,0,1,2), Op(13,0,1,0),
      Op(14,0,9,14), Op(14,0,10,1), Op(14,0,15,15),
      Op(15,0,0,7), Op(15,0,0,10), Op(15,0,1,5), Op(15,0,1,8), Op(15,0,1,14),
      Op(15,0,2,9), Op(15,0,3,0), Op(15,0,3,3), Op(15,1,5,5), Op(15,1,6,5),
      Op(15,1,7,5), Op(15,1,8,5), Op(15,0,15,15) }

\* The arguments of cpu_execute_instruction: None, or an operand.
Params == {<<>>} \cup {<<o>> : o \in Operands}

\* What key.get_pressed() may answer.
KeyStates == {{}, {3}, {1, 15}}

\* What randint(0, 255) may answer: a sample of 0..255.
RandStates == {0, 85, 170, 255}

\* The files cpu_load_rom may read: their bytes.
Roms ==
    { <<96, 16, 224, 158>>,      \* 6010 E09E
      <<128, 21, 138, 191>>,     \* 8015 8ABF
      <<34, 0, 0, 238>> }        \* 2200 00EE

---------------------------------------------------------------------------
(* Actions                                                                 *)

\* The method that executing operand o ends in.
MethodOf(o) ==
    LET top == cpu_operation_lookup[Shr(BitAnd(o, ADDRESS_1), 12)]
        logical == BitAnd(o, ADDRESS_6)
        misc == BitAnd(o, ADDRESS_2)
    IN  IF top = "cpu_execute_logical_instruction"
           /\ logical \in DOMAIN cpu_logical_operation_lookup
        THEN cpu_logical_operation_lookup[logical]
        ELSE IF top = "cpu_misc_routines" /\ misc \in DOMAIN cpu_misc_routine_lookup
        THEN cpu_misc_routine_lookup[misc]
        ELSE top

\* Every method a call can end in; cpu_execute_instruction itself when
\* the fetch raises.
Methods ==
    {"cpu_execute_instruction"}
    \cup {cpu_operation_lookup[k] : k \in DOMAIN cpu_operation_lookup}
    \cup {cpu_logical_operation_lookup[k] : k \in DOMAIN cpu_logical_operation_lookup}
    \cup {cpu_misc_routine_lookup[k] : k \in DOMAIN cpu_misc_routine_lookup}

\* The operands of the model, by the method they end in.
OperandsOf == [m \in Methods |-> {o \in Operands : o # 0 /\ MethodOf(o) = m}]

\* The method that a call with no operand (None, or 0) ends in.
FetchedMethod ==
    IF ~IndexOk(pc) \/ ~IndexOk(pc + 1) THEN "cpu_execute_instruction"
    ELSE MethodOf(Shl(MemRead(memory, pc), 8) + MemRead(memory, pc + 1))

\* The arguments with which a call ends in method m, in the current state.
ParamsOf(m) ==
    {<<o>> : o \in OperandsOf[m]}
    \cup (IF FetchedMethod = m THEN {p \in Params : ~Truthy(p)} ELSE {})

\* The step completed an instruction of the top-level group g.
Completed(g) ==
    /\ call' = "cpu_execute_instruction"
    /\ outcome' = "ok"
    /\ dispatched' # <<>>
    /\ dispatched'[1] \div 4096 = g

\* The program counter the handler of the step saw: pc for an operand
\* passed in, pc + 2 after a fetch.
SeenPc == IF Truthy(cpu_operator_param') THEN pc ELSE pc + 2

\* The step left the sp and the stack bytes of the calls in frames alone.
FramesIntact ==
    /\ sp' = sp
    /\ \A a \in (sp - 2 * Len(frames)) .. (sp - 1) :
           MemRead(memory', a) = MemRead(memory, a)

\* The history of calls after the step: a completed 2nnn adds a frame, a
\* completed 00EE drops the newest, and a step that moves sp otherwise, or
\* writes a stack byte of a frame, leaves nothing to match a return with.
FramesAfter ==
    IF Completed(2)
    THEN Append(frames, [pc |-> SeenPc, sp |-> sp])
    ELSE IF Completed(0) /\ dispatched'[1] = Op(0, 0, 14, 14)
    THEN IF frames = <<>> THEN <<>> ELSE SubSeq(frames, 1, Len(frames) - 1)
    ELSE IF FramesIntact THEN frames
    ELSE <<>>

\* The history variables follow the step.
Track ==
    /\ frames' = FramesAfter
    /\ prev_pixels' = pixels

\* One call cpu_execute_instruction(p), drawing env.
Execute(p, env) ==
    /\ Commit(cpu_execute_instruction(Begin("cpu_execute_instruction", p), p, env))
    /\ Track
    /\ UNCHANGED << events, loop >>

\* The fetch itself fails: the program counter is outside the memory.
ExecFetchFails ==
    /\ steps < MaxSteps
    /\ \E p \in ParamsOf("cpu_execute_instruction") : Execute(p, NoEnv)

ExecClearReturn ==
    /\ steps < MaxSteps
    /\ \E p \in ParamsOf("cpu_clear_return") : Execute(p, NoEnv)

ExecJumpToAddress ==
    /\ steps < MaxSteps
    /\ \E p \in ParamsOf("cpu_jump_to_address") : Execute(p, NoEnv)

ExecJumpToSubroutine ==
    /\ steps < MaxSteps
    /\ \E p \in ParamsOf("cpu_jump_to_subroutine") : Execute(p, NoEnv)

ExecSkipIfRegEqualVal ==
    /\ steps < MaxSteps
    /\ \E p \in ParamsOf("cpu_skip_if_reg_equal_val") : Execute(p, NoEnv)

ExecSkipIfRegNotEqualVal ==
    /\ steps < MaxSteps
    /\ \E p \in ParamsOf("cpu_skip_if_reg_not_equal_val") : Execute(p, NoEnv)

ExecSkipIfRegEqualReg ==
    /\ steps < MaxSteps
    /\ \E p \in ParamsOf("cpu_skip_if_reg_equal_reg") : Execute(p, NoEnv)

ExecMoveValueToReg ==
    /\ steps < MaxSteps
    /\ \E p \in ParamsOf("cpu_move_value_to_reg") : Execute(p, NoEnv)

ExecAddValueToReg ==
    /\ steps < MaxSteps
    /\ \E p \in ParamsOf("cpu_add_value_to_reg") : Execute(p, NoEnv)

\* The logical table has no method for the operand's low nibble.
ExecLogicalUnknown ==
    /\ steps < MaxSteps
    /\ \E p \in ParamsOf("cpu_execute_logical_instruction") : Execute(p, NoEnv)

ExecMoveRegIntoReg ==
    /\ steps < MaxSteps
    /\ \E p \in ParamsOf("cpu_move_reg_into_reg") : Execute(p, NoEnv)

ExecLogicalOr ==
    /\ steps < MaxSteps
    /\ \E p \in ParamsOf("cpu_logical_or") : Execute(p, NoEnv)

ExecLogicalAnd ==
    /\ steps < MaxSteps
    /\ \E p \in ParamsOf("cpu_logical_and") : Execute(p, NoEnv)

ExecExclusiveOr ==
    /\ steps < MaxSteps
    /\ \E p \in ParamsOf("cpu_exclusive_or") : Execute(p, NoEnv)

ExecAddRegToReg ==
    /\ steps < MaxSteps
    /\ \E p \in ParamsOf("cpu_add_reg_to_reg") : Execute(p, NoEnv)

ExecSubtractRegFromReg ==
    /\ steps < MaxSteps
    /\ \E p \in ParamsOf("cpu_subtract_reg_from_reg") : Execute(p, NoEnv)

ExecRightShiftReg ==
    /\ steps < MaxSteps
    /\ \E p \in ParamsOf("cpu_right_shift_reg") : Execute(p, NoEnv)

ExecSubtractRegFromReg1 ==
    /\ steps < MaxSteps
    /\ \E p \in ParamsOf("cpu_subtract_reg_from_reg1") : Execute(p, NoEnv)

ExecLeftShiftReg ==
    /\ steps < MaxSteps
    /\ \E p \in ParamsOf("cpu_left_shift_reg") : Execute(p, NoEnv)

ExecSkipIfRegNotEqualReg ==
    /\ steps < MaxSteps
    /\ \E p \in ParamsOf("cpu_skip_if_reg_not_equal_reg") : Execute(p, NoEnv)

ExecLoadIndexRegWithValue ==
    /\ steps < MaxSteps
    /\ \E p \in ParamsOf("cpu_load_index_reg_with_value") : Execute(p, NoEnv)

ExecJumpToIndexPlusValue ==
    /\ steps < MaxSteps
    /\ \E p \in ParamsOf("cpu_jump_to_index_plus_value") : Execute(p, NoEnv)

ExecGenerateRandomNumber ==
    /\ steps < MaxSteps
    /\ \E p \in ParamsOf("cpu_generate_random_number"), rand \in RandStates :
           Execute(p, [NoEnv EXCEPT !.rand = rand])

ExecDrawSprite ==
    /\ steps < MaxSteps
    /\ \E p \in ParamsOf("cpu_draw_sprite") : Execute(p, NoEnv)

ExecKeyboardRoutines ==
    /\ steps < MaxSteps
    /\ \E p \in ParamsOf("cpu_keyboard_routines"), keys \in KeyStates :
           Execute(p, [NoEnv EXCEPT !.keys = keys])

\* The misc table has no method for the operand's low byte.
ExecMiscUnknown ==
    /\ steps < MaxSteps
    /\ \E p \in ParamsOf("cpu_misc_routines") : Execute(p, NoEnv)

ExecMoveDelayTimerIntoReg ==
    /\ steps < MaxSteps
    /\ \E p \in ParamsOf("cpu_move_delay_timer_into_reg") : Execute(p, NoEnv)

\* The wait returns once a KEYDOWN event finds a mapped key down.
ExecWaitForKeypress ==
    /\ steps < MaxSteps
    /\ \E p \in ParamsOf("cpu_wait_for_keypress"), keys \in KeyStates :
           /\ keys \cap KEY_MAPPINGS # {}
           /\ Execute(p, [NoEnv EXCEPT !.keys = keys])

ExecMoveRegIntoDelayTimer ==
    /\ steps < MaxSteps
    /\ \E p \in ParamsOf("cpu_move_reg_into_delay_timer") : Execute(p, NoEnv)

ExecMoveRegIntoSoundTimer ==
    /\ steps < MaxSteps
    /\ \E p \in ParamsOf("cpu_move_reg_into_sound_timer") : Execute(p, NoEnv)

ExecAddRegIntoIndex ==
    /\ steps < MaxSteps
    /\ \E p \in ParamsOf("cpu_add_reg_into_index") : Execute(p, NoEnv)

ExecLoadIndexWithRegSprite ==
    /\ steps < MaxSteps
    /\ \E p \in ParamsOf("cpu_load_index_with_reg_sprite") : Execute(p, NoEnv)

ExecLoadIndexWithExtendedRegSprite ==
    /\ steps < MaxSteps
    /\ \E p \in ParamsOf("cpu_load_index_with_extended_reg_sprite") : Execute(p, NoEnv)

ExecStoreBcdInMemory ==
    /\ steps < MaxSteps
    /\ \E p \in ParamsOf("cpu_store_bcd_in_memory") : Execute(p, NoEnv)

ExecStoreRegsInMemory ==
    /\ steps < MaxSteps
    /\ \E p \in ParamsOf("cpu_store_regs_in_memory") : Execute(p, NoEnv)

ExecReadRegsFromMemory ==
    /\ steps < MaxSteps
    /\ \E p \in ParamsOf("cpu_read_regs_from_memory") : Execute(p, NoEnv)

ExecStoreRegsInRpl ==
    /\ steps < MaxSteps
    /\ \E p \in ParamsOf("cpu_store_regs_in_rpl") : Execute(p, NoEnv)

ExecReadRegsFromRpl ==
    /\ steps < MaxSteps
    /\ \E p \in ParamsOf("cpu_read_regs_from_rpl") : Execute(p, NoEnv)

\* One call cpu_decrement_timers().
Tick ==
    /\ steps < MaxSteps
    /\ Commit(cpu_decrement_timers(Begin("cpu_decrement_timers", <<>>)))
    /\ Track
    /\ UNCHANGED << events, loop >>

\* One call cpu_reset().
DoReset ==
    /\ steps < MaxSteps
    /\ Commit(cpu_reset(Begin("cpu_reset", <<>>)))
    /\ Track
    /\ UNCHANGED << events, loop >>

\* One call cpu_load_rom(filename), at the default offset.
LoadRom ==
    \E cpu_romdata \in Roms :
        /\ steps < MaxSteps
        /\ Commit(cpu_load_rom(Begin("cpu_load_rom", <<>>), cpu_romdata,
                               PROGRAM_COUNTER_START))
        /\ Track
        /\ UNCHANGED << events, loop >>

ExecLogical ==
    \/ ExecLogicalUnknown
    \/ ExecMoveRegIntoReg
    \/ ExecLogicalOr
    \/ ExecLogicalAnd
    \/ ExecExclusiveOr
    \/ ExecAddRegToReg
    \/ ExecSubtractRegFromReg
    \/ ExecRightShiftReg
    \/ ExecSubtractRegFromReg1
    \/ ExecLeftShiftReg

ExecMisc ==
    \/ ExecMiscUnknown
    \/ ExecMoveDelayTimerIntoReg
    \/ ExecWaitForKeypress
    \/ ExecMoveRegIntoDelayTimer
    \/ ExecMoveRegIntoSoundTimer
    \/ ExecAddRegIntoIndex
    \/ ExecLoadIndexWithRegSprite
    \/ ExecLoadIndexWithExtendedRegSprite
    \/ ExecStoreBcdInMemory
    \/ ExecStoreRegsInMemory
    \/ ExecReadRegsFromMemory
    \/ ExecStoreRegsInRpl
    \/ ExecReadRegsFromRpl

Next ==
    \/ ExecFetchFails
    \/ ExecClearReturn
    \/ ExecJumpToAddress
    \/ ExecJumpToSubroutine
    \/ ExecSkipIfRegEqualVal
    \/ ExecSkipIfRegNotEqualVal
    \/ ExecSkipIfRegEqualReg
    \/ ExecMoveValueToReg
    \/ ExecAddValueToReg
    \/ ExecLogical
    \/ ExecSkipIfRegNotEqualReg
    \/ ExecLoadIndexRegWithValue
    \/ ExecJumpToIndexPlusValue
    \/ ExecGenerateRandomNumber
    \/ ExecDrawSprite
    \/ ExecKeyboardRoutines
    \/ ExecMisc
    \/ Tick
    \/ DoReset
    \/ LoadRom

Spec == Init /\ [][Next]_vars

---------------------------------------------------------------------------
(* The arithmetic group on its own: one instruction of group 8, from every *)
(* pair of byte values of its two registers                                *)

\* The byte values a register is given before the instruction.
ByteValues == 0 .. 255

\* The state after reset with V0 = VF = a and V1 = b (as 60aa 61bb 6Faa
\* leave it), one call before the step bound.
InitAlu ==
    /\ \E a \in ByteValues, b \in ByteValues :
           v = [ZeroRegisters EXCEPT ![0] = a, ![1] = b, ![15] = a]
    /\ index = 0
    /\ sp = STACK_POINTER_START
    /\ pc = PROGRAM_COUNTER_START
    /\ rpl = ZeroRegisters
    /\ delay = 0
    /\ sound = 0
    /\ operand = 0
    /\ mode = MODE_NORMAL
    /\ memory = EmptyMemory
    /\ screen_width = SCREEN_WIDTH(MODE_NORMAL)
    /\ screen_height = SCREEN_HEIGHT(MODE_NORMAL)
    /\ pixels = {}
    /\ flips = 0
    /\ shown = {}
    /\ keys_pressed = {}
    /\ call = "cpu_execute_instruction"
    /\ cpu_operator_param = <<Op(6, 15, 0, 0)>>
    /\ outcome = "ok"
    /\ exc_arg = <<>>
    /\ returned = <<Op(6, 15, 0, 0)>>
    /\ dispatched = <<Op(6, 15, 0, 0)>>
    /\ steps = MaxSteps - 1
    /\ frames = <<>>
    /\ prev_pixels = {}
    /\ events = <<>>
    /\ loop = "off"

NextAlu == ExecLogical

SpecAlu == InitAlu /\ [][NextAlu]_vars

---------------------------------------------------------------------------
(* What a step shows of the call it makes                                  *)

\* The step is a call cpu_execute_instruction that got as far as dispatch.
Dispatches ==
    /\ call' = "cpu_execute_instruction"
    /\ dispatched' # <<>>

\* The operand the step dispatched, and its fields.
Word == dispatched'[1]
Group == Word \div 4096
OpX == (Word \div 256) % 16
OpY == (Word \div 16) % 16
LowNibble == Word % 16
LowByte == Word % 256

\* The step ran instruction 8XYn to completion on byte values, X not 0xF.
AluStep(n) ==
    /\ Dispatches
    /\ outcome' = "ok"
    /\ Group = 8
    /\ LowNibble = n
    /\ OpX # 15
    /\ v[OpX] \in 0 .. 255
    /\ v[OpY] \in 0 .. 255

\* The same with X = 0xF.
AluStepOnVF(n) ==
    /\ Dispatches
    /\ outcome' = "ok"
    /\ Group = 8
    /\ LowNibble = n
    /\ OpX = 15
    /\ v[15] \in 0 .. 255
    /\ v[OpY] \in 0 .. 255

Bool01(b) == IF b THEN 1 ELSE 0

\* The flag of instruction 8XYn on the values x of VX and y of VY.
FlagOf(n, x, y) ==
    CASE n = 4 -> Bool01(x + y > 255)
      [] n = 5 -> Bool01(x >= y)
      [] n = 6 -> x % 2
      [] n = 7 -> Bool01(y >= x)
      [] n = 14 -> (x \div 128) % 2

---------------------------------------------------------------------------
(* C1 - C10                                                                *)

\* C1: after any sequence of execute-one-instruction and timer-tick calls
\* from reset, every general register V0..VF holds a value in 0..255.
C1_RegistersAreBytes == \A r \in 0 .. NUM_REGISTERS - 1 : v[r] \in 0 .. 255

\* 60FF then 801E: V0 holds 510.
C1_RegisterHolds510 ==
    /\ dispatched = <<Op(8, 0, 1, 14)>>
    /\ outcome = "ok"
    /\ v[0] = 510

\* C2: for X # 0xF and VX, VY in 0..255, 8XY5 (SUB) leaves
\* VX = (VX - VY) mod 256 and VF = 1 exactly when VX >= VY held before,
\* VX = VY included, else VF = 0.
C2_SubWrapsAndFlagsNoBorrow ==
    [][AluStep(5) =>
          /\ v'[OpX] = (v[OpX] - v[OpY]) % 256
          /\ v'[15] = Bool01(v[OpX] >= v[OpY])]_vars

\* SUB V0, V1 on equal values 7 and 7: V0 holds 256 and VF holds 0.
C2_EqualValuesLeave256 ==
    /\ dispatched = <<Op(8, 0, 1, 5)>>
    /\ outcome = "ok"
    /\ v[1] = 7
    /\ v[0] = 256
    /\ v[15] = 0

\* C3: for X # 0xF and VX, VY in 0..255, 8XY7 (SUBN) leaves
\* VX = (VY - VX) mod 256 and VF = 1 exactly when VY >= VX held before,
\* VY = VX included, else VF = 0.
C3_SubnWrapsAndFlagsNoBorrow ==
    [][AluStep(7) =>
          /\ v'[OpX] = (v[OpY] - v[OpX]) % 256
          /\ v'[15] = Bool01(v[OpY] >= v[OpX])]_vars

\* SUBN V0, V1 on equal values 9 and 9: V0 holds 256 and VF holds 0.
C3_EqualValuesLeave256 ==
    /\ dispatched = <<Op(8, 0, 1, 7)>>
    /\ outcome = "ok"
    /\ v[1] = 9
    /\ v[0] = 256
    /\ v[15] = 0

\* C4: for X # 0xF and VX in 0..255, 8X_E (SHL) leaves VX = (2 * VX) mod 256
\* and VF = bit 7 of the value VX held before the shift.
C4_ShlWrapsAndFlagsBitSeven ==
    [][AluStep(14) =>
          /\ v'[OpX] = (2 * v[OpX]) % 256
          /\ v'[15] = (v[OpX] \div 128) % 2]_vars

\* SHL V0 on 0x81: V0 holds 0x102 and VF holds 0.
C4_ShiftLeaves258 ==
    /\ dispatched = <<Op(8, 0, 1, 14)>>
    /\ outcome = "ok"
    /\ v[0] = 258
    /\ v[15] = 0

\* C5: for X # 0xF and VX, VY in 0..255, 8XY4 (ADD) leaves
\* VX = (VX + VY) mod 256 and VF = 1 if the unwrapped sum exceeds 255,
\* else VF = 0.
C5_AddWrapsAndCarries ==
    [][AluStep(4) =>
          /\ v'[OpX] = (v[OpX] + v[OpY]) % 256
          /\ v'[15] = Bool01(v[OpX] + v[OpY] > 255)]_vars

\* ADD V0, V1 on 200 and 100: V0 holds 44 and VF holds 1.
C5_AddCarried ==
    /\ dispatched = <<Op(8, 0, 1, 4)>>
    /\ outcome = "ok"
    /\ v[1] = 100
    /\ v[0] = 44
    /\ v[15] = 1

\* C6: for 8XY4, 8XY5, 8XY6, 8XY7 and 8XYE the flag is written to VF after
\* the result: with X = 0xF, VF holds the carry / no-borrow / shifted-out
\* flag after the instruction, not the arithmetic result.
C6_FlagWrittenLast ==
    [][\A n \in {4, 5, 6, 7, 14} :
          AluStepOnVF(n) => v'[15] = FlagOf(n, v[15], v[OpY])]_vars

\* SUB VF, V1 on 5 and 3: VF holds the difference 2, not the flag 1.
C6_VFHoldsDifference ==
    /\ dispatched = <<Op(8, 15, 1, 5)>>
    /\ outcome = "ok"
    /\ v[0] = 5
    /\ v[1] = 3
    /\ v[15] = 2

\* The operand has no handler in the table of group 8 or of group F.
UnknownSubKey ==
    \/ Group = 8 /\ LowNibble \notin {0, 1, 2, 3, 4, 5, 6, 7, 14}
    \/ Group = 15 /\ LowByte \notin {7, 10, 21, 24, 30, 41, 48, 51, 85, 101, 117, 133}

\* C7: an operand of group 8 with a low nibble outside {0..7, E}, or of
\* group F with a low byte outside {07,0A,15,18,1E,29,30,33,55,65,75,85},
\* fails with the unknown-instruction exception carrying the full operand,
\* and leaves V, I, SP, both timers, the RPL store and memory unchanged.
C7_UnknownSubKeyRaisesAndKeepsState ==
    [][Dispatches /\ UnknownSubKey =>
          /\ outcome' = "UnknownOpCodeException"
          /\ exc_arg' = <<Word>>
          /\ returned' = <<>>
          /\ UNCHANGED <<v, index, sp, delay, sound, rpl, memory>>]_vars

\* 0x8ABF raised, with V0 = 16 and I = 0x203 still in place.
C7_Raised8ABF ==
    /\ call = "cpu_execute_instruction"
    /\ outcome = "UnknownOpCodeException"
    /\ exc_arg = <<Op(8, 10, 11, 15)>>
    /\ v[0] = 16
    /\ index = 515

\* C8: an operand of group E with a low byte other than 9E and A1 fails
\* with the unknown-instruction exception carrying the operand.
C8_UnknownKeypadKeyRaises ==
    [][Dispatches /\ Group = 14 /\ LowByte \notin {158, 161} =>
          /\ outcome' = "UnknownOpCodeException"
          /\ exc_arg' = <<Word>>]_vars

\* 0xE0FF completed and was returned.
C8_E0FFReturned ==
    /\ call = "cpu_execute_instruction"
    /\ dispatched = <<Op(14, 0, 15, 15)>>
    /\ outcome = "ok"
    /\ returned = <<Op(14, 0, 15, 15)>>

\* C9: where I and SP address inside the memory, a call of
\* cpu_execute_instruction completes or fails with the unknown-instruction
\* exception; it has no other outcome.
C9_OnlyUnknownOpCodeIsRaised ==
    [][/\ call' = "cpu_execute_instruction"
       /\ index \in 0 .. MAX_MEMORY - 1
       /\ sp \in 0 .. MAX_MEMORY - 1
       => outcome' \in {"ok", "UnknownOpCodeException"}]_vars

\* Ex9E with V0 = 16: the lookup of the key raised KeyError.
C9_KeyLookupRaisedKeyError ==
    /\ call = "cpu_execute_instruction"
    /\ dispatched = <<Op(14, 0, 9, 14)>>
    /\ v[0] = 16
    /\ outcome = "KeyError"
    /\ index \in 0 .. MAX_MEMORY - 1
    /\ sp \in 0 .. MAX_MEMORY - 1

\* The step is a call with no operand (None, or 0) whose fetch succeeded.
Fetches ==
    /\ Dispatches
    /\ ~Truthy(cpu_operator_param')

\* What the step shows of the program counter the handler saw, if that
\* was base: a handler that leaves it alone ends at base, a skip at base or
\* base + 2, and a call stores base at the stack pointer, low byte first.
HandlerSawPc(base) ==
    CASE Group \in {6, 7, 8, 10, 12, 13, 15} -> pc' = base
      [] Group \in {3, 4, 5, 9, 14} -> pc' \in {base, base + 2}
      [] Group = 2 /\ outcome' = "ok" ->
            /\ MemRead(memory', sp) = base % 256
            /\ MemRead(memory', sp + 1) = base \div 256
      [] Group = 0 /\ Word # Op(0, 0, 14, 14) -> pc' = base
      [] OTHER -> TRUE

\* The same for a fetched operand: the handler saw pc + 2.
HandlerSawPcPlus2 == HandlerSawPc(pc + 2)

\* C10: a call with no operand takes Memory[PC] * 256 + Memory[PC + 1] as
\* its operand, advances PC by 2 before the handler runs, and returns the
\* operand it dispatched.
C10_FetchIsBigEndianAndAdvances ==
    [][Fetches =>
          /\ Word = MemRead(memory, pc) * 256 + MemRead(memory, pc + 1)
          /\ operand' = Word
          /\ (outcome' = "ok" => returned' = <<Word>>)
          /\ HandlerSawPcPlus2]_vars

\* 0x6010 was fetched from 0x200 of the loaded program, run and returned.
C10_Fetched6010 ==
    /\ call = "cpu_execute_instruction"
    /\ cpu_operator_param = <<>>
    /\ dispatched = <<Op(6, 0, 1, 0)>>
    /\ returned = <<Op(6, 0, 1, 0)>>
    /\ v[0] = 16
    /\ pc = PROGRAM_COUNTER_START + 2

---------------------------------------------------------------------------
(* C11 - C20                                                               *)

\* The step is a call that was given an operand.
Direct ==
    /\ call' = "cpu_execute_instruction"
    /\ cpu_operator_param' # <<>>

\* C11: every 16-bit operand passed directly, 0x0000 included, is the one
\* dispatched and returned; memory at PC is not fetched and PC is not
\* advanced by a fetch step.
C11_DirectOperandBypassesFetch ==
    [][Direct =>
          /\ dispatched' = cpu_operator_param'
          /\ operand' = cpu_operator_param'[1]
          /\ (outcome' = "ok" => returned' = cpu_operator_param')
          /\ HandlerSawPc(pc)]_vars

\* Operand 0x0000 was passed, and 0x6010 was fetched from 0x200 and run.
C11_ZeroOperandFetched6010 ==
    /\ call = "cpu_execute_instruction"
    /\ cpu_operator_param = <<0>>
    /\ dispatched = <<Op(6, 0, 1, 0)>>
    /\ returned = <<Op(6, 0, 1, 0)>>
    /\ v[0] = 16
    /\ pc = PROGRAM_COUNTER_START + 2

\* The calls a run of the call-and-return harness makes.
StackSteps == 4

\* The state after reset, with empty memory or with the program 2200 00EE
\* loaded at 0x200, StackSteps calls before the step bound.
InitStack ==
    /\ v = ZeroRegisters
    /\ index = 0
    /\ sp = STACK_POINTER_START
    /\ pc = PROGRAM_COUNTER_START
    /\ rpl = ZeroRegisters
    /\ delay = 0
    /\ sound = 0
    /\ operand = 0
    /\ mode = MODE_NORMAL
    /\ memory \in {EmptyMemory,
                   MemWrite(MemWrite(EmptyMemory, PROGRAM_COUNTER_START, 34),
                            PROGRAM_COUNTER_START + 3, 238)}
    /\ screen_width = SCREEN_WIDTH(MODE_NORMAL)
    /\ screen_height = SCREEN_HEIGHT(MODE_NORMAL)
    /\ pixels = {}
    /\ flips = 0
    /\ shown = {}
    /\ keys_pressed = {}
    /\ call = "cpu_reset"
    /\ cpu_operator_param = <<>>
    /\ outcome = "ok"
    /\ exc_arg = <<>>
    /\ returned = <<>>
    /\ dispatched = <<>>
    /\ steps = MaxSteps - StackSteps
    /\ frames = <<>>
    /\ prev_pixels = {}
    /\ events = <<>>
    /\ loop = "off"

NextStack ==
    \/ ExecJumpToSubroutine
    \/ ExecClearReturn

SpecStack == InitStack /\ [][NextStack]_vars

\* The step completed 00EE.
Returned == Completed(0) /\ dispatched'[1] = Op(0, 0, 14, 14)

\* C12: 2nnn writes the low byte of PC to Memory[SP] and the high byte to
\* Memory[SP + 1], advances SP by 2 and sets PC to nnn; the matching 00EE
\* restores PC to the value pushed and SP to its value before the call, so
\* that nested calls return last in, first out (stack inside the memory,
\* stack bytes not overwritten in between, PC a 16-bit value).
C12_CallPushesReturnPops ==
    [][/\ (Completed(2) /\ sp \in 0 .. MAX_MEMORY - 2 /\ SeenPc \in 0 .. 65535 =>
              /\ MemRead(memory', sp) = SeenPc % 256
              /\ MemRead(memory', sp + 1) = SeenPc \div 256
              /\ sp' = sp + 2
              /\ pc' = dispatched'[1] % 4096)
       /\ (Returned /\ frames # <<>> /\ frames[Len(frames)].sp \in 0 .. MAX_MEMORY - 2 =>
              /\ pc' = frames[Len(frames)].pc
              /\ sp' = frames[Len(frames)].sp)]_vars

\* CALL 0x204 from 0x200, CALL 0x204 from 0x204, then two returns: back at
\* 0x204 and then at 0x200, with SP back at 0x52.
C12_TwoCallsTwoReturns ==
    /\ dispatched = <<Op(0, 0, 14, 14)>>
    /\ outcome = "ok"
    /\ frames = <<>>
    /\ pc = PROGRAM_COUNTER_START
    /\ sp = STACK_POINTER_START
    /\ MemRead(memory, STACK_POINTER_START + 1) = 2
    /\ MemRead(memory, STACK_POINTER_START + 2) = 4
    /\ MemRead(memory, STACK_POINTER_START + 3) = 2

\* The skip instructions the skip harness finds at 0x200, as two bytes:
\* 3010, 4010, 5010 and 9010.
SkipPrograms == {<<48, 16>>, <<64, 16>>, <<80, 16>>, <<144, 16>>}

\* The values V1 is given in the skip harness.
SkipValues == {0, 16, 255}

\* The state after reset with one skip instruction loaded at 0x200, V0 any
\* byte and V1 one of SkipValues, one call before the step bound.
InitSkip ==
    /\ \E a \in ByteValues, b \in SkipValues :
           v = [ZeroRegisters EXCEPT ![0] = a, ![1] = b]
    /\ index = 0
    /\ sp = STACK_POINTER_START
    /\ pc = PROGRAM_COUNTER_START
    /\ rpl = ZeroRegisters
    /\ delay = 0
    /\ sound = 0
    /\ operand = 0
    /\ mode = MODE_NORMAL
    /\ \E program \in SkipPrograms :
           memory = MemWrite(MemWrite(EmptyMemory, PROGRAM_COUNTER_START, program[1]),
                             PROGRAM_COUNTER_START + 1, program[2])
    /\ screen_width = SCREEN_WIDTH(MODE_NORMAL)
    /\ screen_height = SCREEN_HEIGHT(MODE_NORMAL)
    /\ pixels = {}
    /\ flips = 0
    /\ shown = {}
    /\ keys_pressed = {}
    /\ call = "cpu_execute_instruction"
    /\ cpu_operator_param = <<Op(6, 1, 0, 0)>>
    /\ outcome = "ok"
    /\ exc_arg = <<>>
    /\ returned = <<Op(6, 1, 0, 0)>>
    /\ dispatched = <<Op(6, 1, 0, 0)>>
    /\ steps = MaxSteps - 1
    /\ frames = <<>>
    /\ prev_pixels = {}
    /\ events = <<>>
    /\ loop = "off"

NextSkip ==
    \/ ExecSkipIfRegEqualVal
    \/ ExecSkipIfRegNotEqualVal
    \/ ExecSkipIfRegEqualReg
    \/ ExecSkipIfRegNotEqualReg

SpecSkip == InitSkip /\ [][NextSkip]_vars

\* The condition of the skip instruction the step dispatched.
SkipCondition ==
    CASE Group = 3 -> v[OpX] = LowByte
      [] Group = 4 -> v[OpX] # LowByte
      [] Group = 5 -> v[OpX] = v[OpY]
      [] Group = 9 -> v[OpX] # v[OpY]

---------------------------------------------------------------------------
(* Drawing: DrawSteps draw instructions on a display that already shows    *)
(* something, in both modes, at coordinates that wrap in both directions.  *)

DrawSteps == 2

\* The sprite data: thirty-two bytes, none of them zero, at SpriteAddress.
SpriteAddress == PROGRAM_COUNTER_START + 256

SpriteByte(k) == ((k * 37) + 129) % 256

SpriteMemory == [a \in SpriteAddress .. SpriteAddress + 31 |-> SpriteByte(a - SpriteAddress)]

\* What the display shows before the first draw: nothing, or a pattern
\* drawn by earlier instructions.
LitDisplays ==
    {{}, {xy \in ((0 .. 9) \cup (58 .. 63)) \X (0 .. 31) : (xy[1] + (2 * xy[2])) % 5 = 0}}

DrawXValues == {0, 250}

DrawYValues == {62}

\* Dxyn on V0 and V1 with every num_bytes.
DrawOperands == {Op(13, 0, 1, n) : n \in 0 .. 15}

InitDraw ==
    /\ \E x \in DrawXValues, y \in DrawYValues :
           v = [ZeroRegisters EXCEPT ![0] = x, ![1] = y]
    /\ index = SpriteAddress
    /\ sp = STACK_POINTER_START
    /\ pc = PROGRAM_COUNTER_START
    /\ rpl = ZeroRegisters
    /\ delay = 0
    /\ sound = 0
    /\ operand = 0
    /\ mode \in {MODE_NORMAL, MODE_EXTENDED}
    /\ memory = SpriteMemory
    /\ screen_width = SCREEN_WIDTH(mode)
    /\ screen_height = SCREEN_HEIGHT(mode)
    /\ pixels \in LitDisplays
    /\ flips = 0
    /\ shown = pixels
    /\ keys_pressed = {}
    /\ call = "cpu_execute_instruction"
    /\ cpu_operator_param = <<Op(6, 1, 0, 0)>>
    /\ outcome = "ok"
    /\ exc_arg = <<>>
    /\ returned = <<Op(6, 1, 0, 0)>>
    /\ dispatched = <<Op(6, 1, 0, 0)>>
    /\ steps = MaxSteps - DrawSteps
    /\ frames = <<>>
    /\ prev_pixels = pixels
    /\ events = <<>>
    /\ loop = "off"

\* cpu_execute_instruction called with a draw operand.
ExecDrawAnyHeight ==
    /\ steps < MaxSteps
    /\ \E o \in DrawOperands : Execute(<<o>>, NoEnv)

NextDraw == ExecDrawAnyHeight

SpecDraw == InitDraw /\ [][NextDraw]_vars

\* Bit 7 - c of a sprite byte.
SpriteBit(byte, c) == (byte \div (2 ^ (7 - c))) % 2

\* The display positions under the set bits of an 8-wide sprite of n rows
\* read from Memory[I + r], placed at (VX, VY) of the step's operand.
Sprite8(n) ==
    {<<(v[OpX] + rc[2]) % screen_width, (v[OpY] + rc[1]) % screen_height>> :
        rc \in {q \in (0 .. n - 1) \X (0 .. 7) :
                   SpriteBit(MemRead(memory, index + q[1]), q[2]) = 1}}

\* The draw takes the 8-wide path.
NormalPath == ~(mode = MODE_EXTENDED /\ LowNibble = 0)

Toggled(sprite) == (pixels \ sprite) \cup (sprite \ pixels)

\* C14: a DXYN draw on the 8-wide path is an XOR blit with wrap-around: the
\* pixel at ((VX + c) mod width, (VY + r) mod height) becomes its old value
\* XOR bit 7 - c of Memory[I + r], every other pixel keeps its value, and VF
\* ends as 1 if a set sprite bit met a lit pixel and as 0 otherwise.
C14_DrawIsXorBlitWithWrap ==
    [][Completed(13) /\ NormalPath =>
           /\ pixels' = Toggled(Sprite8(LowNibble))
           /\ v'[15] = Bool01(pixels \cap Sprite8(LowNibble) # {})]_vars

\* A three-row draw in Normal mode at (250, 62) wrapped to the left columns
\* and the top row, and put out the lit pixel it met at (63, 31).
C14_DrewAcrossBothEdges ==
    /\ call = "cpu_execute_instruction"
    /\ outcome = "ok"
    /\ dispatched = <<Op(13, 0, 1, 3)>>
    /\ mode = MODE_NORMAL
    /\ v[0] = 250
    /\ v[1] = 62
    /\ v[15] = 1
    /\ <<63, 31>> \notin pixels
    /\ <<0, 31>> \in pixels
    /\ <<1, 0>> \in pixels
    /\ steps = MaxSteps - 1

\* The step completes a draw, and the call before it was the same draw,
\* completed, on coordinate registers other than VF.
SameDrawAgain ==
    /\ Completed(13)
    /\ call = "cpu_execute_instruction"
    /\ outcome = "ok"
    /\ dispatched = dispatched'
    /\ OpX # 15
    /\ OpY # 15

\* C15: the same draw executed twice in succession, with the same coordinate
\* registers (other than VF), the same I and the same sprite bytes, leaves
\* every pixel as it was before the first of the two draws.
C15_SecondDrawRestoresDisplay == [][SameDrawAgain => pixels' = prev_pixels]_vars

\* In Extended mode the 16x16 sprite was drawn twice at (250, 62): the
\* pattern is back on the display, and the second draw reported collisions.
C15_PatternBackAfterTwoDraws ==
    /\ call = "cpu_execute_instruction"
    /\ outcome = "ok"
    /\ dispatched = <<Op(13, 0, 1, 0)>>
    /\ mode = MODE_EXTENDED
    /\ v[0] = 250
    /\ steps = MaxSteps
    /\ pixels # {}
    /\ <<5, 0>> \in pixels
    /\ prev_pixels # pixels
    /\ <<5, 0>> \notin prev_pixels
    /\ v[15] = 1

\* C16: every completed draw, for every N in 0..15 and in either mode,
\* flips the display exactly once, and after its last pixel write: what
\* the flip put on show is the display the draw left.
C16_DrawFlipsOnceAtTheEnd ==
    (/\ call = "cpu_execute_instruction"
     /\ outcome = "ok"
     /\ dispatched # <<>>
     /\ dispatched[1] \div 4096 = 13)
        => (flips = 1 /\ shown = pixels)

\* A Normal-mode draw with N = 0 wrote no pixel and still flipped once.
C16_EmptyDrawFlipped ==
    /\ call = "cpu_execute_instruction"
    /\ outcome = "ok"
    /\ dispatched = <<Op(13, 0, 1, 0)>>
    /\ mode = MODE_NORMAL
    /\ pixels = prev_pixels
    /\ pixels # {}
    /\ flips = 1
    /\ steps = MaxSteps - 1

\* The display positions under the set bits of the 16x16 sprite read from
\* Memory[I .. I + 31]: row r takes columns 0..7 from byte I + 2r and columns
\* 8..15 from byte I + 2r + 1.
Sprite16 ==
    {<<(v[OpX] + rc[2]) % screen_width, (v[OpY] + rc[1]) % screen_height>> :
        rc \in {q \in (0 .. 15) \X (0 .. 15) :
                   SpriteBit(MemRead(memory, index + (2 * q[1]) + (q[2] \div 8)),
                             q[2] % 8) = 1}}

\* C17: a draw takes the 16x16 path exactly when the mode is Extended and
\* N = 0, blitting Sprite16 by the same XOR, wrap and collision rule; every
\* other draw blits the 8-wide sprite of N rows.
C17_ExtendedPathOnlyInExtendedModeWithN0 ==
    [][Completed(13) =>
           IF mode = MODE_EXTENDED /\ LowNibble = 0
           THEN /\ pixels' = Toggled(Sprite16)
                /\ v'[15] = Bool01(pixels \cap Sprite16 # {})
           ELSE /\ pixels' = Toggled(Sprite8(LowNibble))
                /\ v'[15] = Bool01(pixels \cap Sprite8(LowNibble) # {})]_vars

\* In Extended mode the 16x16 sprite drawn at (250, 62) on the pattern lit
\* (8, 0), which is bit 1 of the second byte of row 2 at column 136 - 128,
\* and put out the lit pixel it met at (5, 0).
C17_DrewSixteenWide ==
    /\ call = "cpu_execute_instruction"
    /\ outcome = "ok"
    /\ dispatched = <<Op(13, 0, 1, 0)>>
    /\ mode = MODE_EXTENDED
    /\ v[0] = 250
    /\ steps = MaxSteps - 1
    /\ <<8, 0>> \in pixels
    /\ <<5, 0>> \notin pixels
    /\ v[15] = 1

---------------------------------------------------------------------------
(* Timers: ticks interleaved with the instructions that read and write the *)
(* timers and with SUBN, from registers that earlier instructions left:    *)
(* 510 is what 60FF 800E leaves in V0.                                     *)

TimerSteps == 3

TimerRegisterValues == {3, 510}

TimerValues == {0, 1, 2}

InitTimer ==
    /\ \E a \in TimerRegisterValues : v = [ZeroRegisters EXCEPT ![0] = a]
    /\ index = 0
    /\ sp = STACK_POINTER_START
    /\ pc = PROGRAM_COUNTER_START
    /\ rpl = ZeroRegisters
    /\ delay \in TimerValues
    /\ sound \in TimerValues
    /\ operand = 0
    /\ mode = MODE_NORMAL
    /\ memory = EmptyMemory
    /\ screen_width = SCREEN_WIDTH(MODE_NORMAL)
    /\ screen_height = SCREEN_HEIGHT(MODE_NORMAL)
    /\ pixels = {}
    /\ flips = 0
    /\ shown = {}
    /\ keys_pressed = {}
    /\ call = "cpu_decrement_timers"
    /\ cpu_operator_param = <<>>
    /\ outcome = "ok"
    /\ exc_arg = <<>>
    /\ returned = <<>>
    /\ dispatched = <<>>
    /\ steps = MaxSteps - TimerSteps
    /\ frames = <<>>
    /\ prev_pixels = {}
    /\ events = <<>>
    /\ loop = "off"

NextTimer ==
    \/ Tick
    \/ ExecSubtractRegFromReg1
    \/ ExecMoveDelayTimerIntoReg
    \/ ExecMoveRegIntoDelayTimer
    \/ ExecMoveRegIntoSoundTimer

SpecTimer == InitTimer /\ [][NextTimer]_vars

\* The step is one call of cpu_decrement_timers.
Ticks == call' = "cpu_decrement_timers"

\* C18: a tick takes 1 from the delay timer if it is not 0 and 1 from the
\* sound timer if it is not 0, each whatever the other holds; and whatever
\* ticks and instructions have run, neither timer is below 0.
C18_TickDecrementsAndTimersStayAboveZero ==
    [][/\ Ticks => /\ delay' = (IF delay # 0 THEN delay - 1 ELSE delay)
                   /\ sound' = (IF sound # 0 THEN sound - 1 ELSE sound)
       /\ delay' >= 0
       /\ sound' >= 0]_vars

\* SUBN left -254 in V0, FX15 stored it, and a tick took the delay timer
\* further down.
C18_DelayTimerAt255BelowZero ==
    /\ call = "cpu_decrement_timers"
    /\ delay = -255
    /\ v[0] = -254

---------------------------------------------------------------------------
(* One call of any method, on states in which a change of a timer shows:   *)
(* V0 = 16 and V1 = 3 loaded, either timer at 0 or loaded from V0, the     *)
(* memory empty or holding a ROM, the pc at the program start or, after    *)
(* 1FFF, on the last byte of the memory.                                   *)

InitStep ==
    /\ v = [ZeroRegisters EXCEPT ![0] = 16, ![1] = 3]
    /\ index = 0
    /\ sp = STACK_POINTER_START
    /\ pc \in {PROGRAM_COUNTER_START, MAX_MEMORY - 1}
    /\ rpl = ZeroRegisters
    /\ delay \in {0, 16}
    /\ sound \in {0, 16}
    /\ operand = Op(6, 1, 0, 3)
    /\ mode = MODE_NORMAL
    /\ \E cpu_romdata \in Roms \cup {<<>>} :
           memory = cpu_load_rom([memory |-> EmptyMemory, outcome |-> "ok"],
                                 cpu_romdata, PROGRAM_COUNTER_START).memory
    /\ screen_width = SCREEN_WIDTH(MODE_NORMAL)
    /\ screen_height = SCREEN_HEIGHT(MODE_NORMAL)
    /\ pixels = {}
    /\ flips = 0
    /\ shown = {}
    /\ keys_pressed = {}
    /\ call = "cpu_execute_instruction"
    /\ cpu_operator_param = <<Op(6, 1, 0, 3)>>
    /\ outcome = "ok"
    /\ exc_arg = <<>>
    /\ returned = <<Op(6, 1, 0, 3)>>
    /\ dispatched = <<Op(6, 1, 0, 3)>>
    /\ steps = MaxSteps - 1
    /\ frames = <<>>
    /\ prev_pixels = {}
    /\ events = <<>>
    /\ loop = "off"

SpecStep == InitStep /\ [][Next]_vars

\* The step completes FX15, or FX18.
LoadsDelay == Completed(15) /\ LowByte = 21

LoadsSound == Completed(15) /\ LowByte = 24

Executes == call' = "cpu_execute_instruction"

\* C19: no instruction decrements a timer.  The delay timer is changed by
\* FX15 alone and the sound timer by FX18 alone, each set to VX; every other
\* instruction leaves both timers as they were; and a tick changes nothing
\* of the machine but the two timers.
C19_OnlyLoadsAndTicksChangeTimers ==
    [][/\ (Executes /\ ~LoadsDelay) => delay' = delay
       /\ (Executes /\ ~LoadsSound) => sound' = sound
       /\ LoadsDelay => delay' = v[OpX]
       /\ LoadsSound => sound' = v[OpX]
       /\ Ticks => UNCHANGED << v, index, sp, pc, rpl, operand, mode, memory,
                                screen_width, screen_height, pixels, shown,
                                keys_pressed >>]_vars

\* 6010 then F015 left 16 in the delay timer and the sound timer at 0.
C19_DelayLoadedFromV0 ==
    /\ call = "cpu_execute_instruction"
    /\ outcome = "ok"
    /\ dispatched = <<Op(15, 0, 1, 5)>>
    /\ v[0] = 16
    /\ delay = 16
    /\ sound = 0

---------------------------------------------------------------------------
(* The loop of screen_cpu_connector: it executes the instruction at PC,    *)
(* then takes every queued event, and stops on QUIT, on the key q and on   *)
(* the operand EXIT_STATE.  pygame puts TIMER, KEYDOWN and QUIT events on  *)
(* the queue at any moment, the key wait included.                         *)

EXIT_STATE == 253

\* pygame.K_q, next to the keypad keys 0x0..0xF of KEY_MAPPINGS.
K_q == 113

DriverSteps == 5

MaxEvents == 2

EventTypes == {"TIMER", "KEYDOWN", "QUIT"}

\* What key.get_pressed() may answer in the loop and in the wait.
DriverKeyStates == {{}, {3}, {K_q}, {1, 15}}

\* The ROM: 6002 F015 F10A F007 00FD.
DriverProgram == <<96, 2, 240, 21, 241, 10, 240, 7, 0, 253>>

DriverMemory ==
    [a \in {PROGRAM_COUNTER_START + i - 1 :
               i \in {j \in 1 .. Len(DriverProgram) : DriverProgram[j] # 0}}
        |-> DriverProgram[a - PROGRAM_COUNTER_START + 1]]

\* screen_cpu_connector up to the loop: the display, the CPU, the ROM.
InitDriver ==
    /\ v = ZeroRegisters
    /\ index = 0
    /\ sp = STACK_POINTER_START
    /\ pc = PROGRAM_COUNTER_START
    /\ rpl = ZeroRegisters
    /\ delay = 0
    /\ sound = 0
    /\ operand = 0
    /\ mode = MODE_NORMAL
    /\ memory = DriverMemory
    /\ screen_width = SCREEN_WIDTH(MODE_NORMAL)
    /\ screen_height = SCREEN_HEIGHT(MODE_NORMAL)
    /\ pixels = {}
    /\ flips = 0
    /\ shown = {}
    /\ keys_pressed = {}
    /\ call = "cpu_load_rom"
    /\ cpu_operator_param = <<>>
    /\ outcome = "ok"
    /\ exc_arg = <<>>
    /\ returned = <<>>
    /\ dispatched = <<>>
    /\ steps = MaxSteps - DriverSteps
    /\ frames = <<>>
    /\ prev_pixels = {}
    /\ events = <<>>
    /\ loop = "execute"

\* pygame queues an event of type t; the history field says whether the
\* key wait was outstanding at that moment.
Post ==
    /\ loop \in {"execute", "wait", "events"}
    /\ Len(events) < MaxEvents
    /\ \E t \in EventTypes :
           events' = Append(events, [type |-> t, waited |-> loop = "wait"])
    /\ UNCHANGED << machine, loop >>

\* operand = project_cpu.cpu_execute_instruction(), for every instruction
\* but the key wait.
DriverExecute ==
    /\ steps < MaxSteps
    /\ loop = "execute"
    /\ FetchedMethod # "cpu_wait_for_keypress"
    /\ Commit(cpu_execute_instruction(Begin("cpu_execute_instruction", <<>>),
                                      <<>>, NoEnv))
    /\ Track
    /\ events' = events
    /\ loop' = IF outcome' = "ok" THEN "events" ELSE "raised"

\* One turn of the wait loop that calls cpu_decrement_timers() on a TIMER
\* event, as the loop of screen_cpu_connector does.
cpu_wait_for_keypress_event_ticks(s, cpu_event, keys) ==
    IF cpu_event.type = "KEYDOWN" /\ keys \cap KEY_MAPPINGS # {}
    THEN ReturnOperand(cpu_wait_for_keypress(s, keys))
    ELSE IF cpu_event.type = "KEYDOWN" THEN [s EXCEPT !.keys_pressed = keys]
    ELSE IF cpu_event.type = "TIMER" THEN cpu_decrement_timers(s)
    ELSE s

\* One turn of the wait loop that takes any KEYDOWN as the key press and
\* returns, storing a key only if a mapped key is down.
cpu_wait_for_keypress_event_any_keydown(s, cpu_event, keys) ==
    IF cpu_event.type = "KEYDOWN" /\ keys \cap KEY_MAPPINGS # {}
    THEN ReturnOperand(cpu_wait_for_keypress(s, keys))
    ELSE IF cpu_event.type = "KEYDOWN"
    THEN ReturnOperand([s EXCEPT !.keys_pressed = keys])
    ELSE s

\* One turn of the while loop of cpu_wait_for_keypress on the event that
\* pygame.event.wait() answered, keys being what key.get_pressed() answers:
\* a KEYDOWN with a mapped key down ends the wait and the call returns,
\* every other event is dropped.
cpu_wait_for_keypress_event(s, cpu_event, keys) ==
    IF cpu_event.type = "KEYDOWN" /\ keys \cap KEY_MAPPINGS # {}
    THEN ReturnOperand(cpu_wait_for_keypress(s, keys))
    ELSE IF cpu_event.type = "KEYDOWN" THEN [s EXCEPT !.keys_pressed = keys]
    ELSE s

\* cpu_execute_instruction() fetches FX0A and enters cpu_wait_for_keypress.
DriverEnterWait ==
    /\ steps < MaxSteps
    /\ loop = "execute"
    /\ FetchedMethod = "cpu_wait_for_keypress"
    /\ Commit([FetchOperand(Begin("cpu_execute_instruction", <<>>), <<>>)
                  EXCEPT !.dispatched = <<Shl(MemRead(memory, pc), 8)
                                           + MemRead(memory, pc + 1)>>])
    /\ Track
    /\ events' = events
    /\ loop' = "wait"

\* pygame.event.wait() in cpu_wait_for_keypress takes the oldest event.
WaitEvent ==
    /\ loop = "wait"
    /\ events # <<>>
    /\ \E keys \in DriverKeyStates :
           /\ Commit(cpu_wait_for_keypress_event(S, Head(events), keys))
           /\ loop' = IF returned' # <<>> THEN "events" ELSE "wait"
    /\ events' = Tail(events)
    /\ UNCHANGED << frames, prev_pixels >>

\* The for loop over pygame.event.get(): one cpu_decrement_timers() for
\* every TIMER event.
RECURSIVE EventPass(_, _)
EventPass(s, evs) ==
    IF evs = <<>> THEN s
    ELSE EventPass(
             IF Head(evs).type = "TIMER"
             THEN cpu_decrement_timers(
                      [s EXCEPT !.call = "cpu_decrement_timers",
                                !.cpu_operator_param = <<>>, !.outcome = "ok",
                                !.exc_arg = <<>>, !.returned = <<>>,
                                !.dispatched = <<>>, !.flips = 0,
                                !.steps = s.steps + 1])
             ELSE s,
             Tail(evs))

HasEvent(evs, t) == \E i \in 1 .. Len(evs) : evs[i].type = t

\* running = False in the for loop: on QUIT, and on KEYDOWN with q down.
Quits(evs, keys) == HasEvent(evs, "QUIT") \/ (HasEvent(evs, "KEYDOWN") /\ K_q \in keys)

\* The events pass after an instruction has returned, and the test of the
\* returned operand against EXIT_STATE.
DriverEvents ==
    /\ loop = "events"
    /\ \E keys \in DriverKeyStates :
           /\ Commit([EventPass(S, events) EXCEPT
                         !.keys_pressed = IF HasEvent(events, "KEYDOWN")
                                          THEN keys ELSE keys_pressed])
           /\ loop' = IF Quits(events, keys) \/ returned = <<EXIT_STATE>>
                      THEN "done" ELSE "execute"
    /\ events' = <<>>
    /\ frames' = frames
    /\ prev_pixels' = IF HasEvent(events, "TIMER") THEN pixels ELSE prev_pixels

NextDriver ==
    \/ Post
    \/ DriverExecute
    \/ DriverEnterWait
    \/ WaitEvent
    \/ DriverEvents

SpecDriver == InitDriver /\ [][NextDriver]_vars

\* The TIMER events among evs, and those that arrived outside the wait.
TimerEvents(evs) == Cardinality({i \in 1 .. Len(evs) : evs[i].type = "TIMER"})

TimerEventsFromOutsideWait(evs) ==
    Cardinality({i \in 1 .. Len(evs) : evs[i].type = "TIMER" /\ ~evs[i].waited})

\* A timer at t, not below 0, after n ticks.
TickedDown(t, n) == IF t > n THEN t - n ELSE 0

\* While the key wait is outstanding a step begins no call, leaves the
\* instruction and its pc in place and leaves both timers alone.
WaitHoldsMachine ==
    loop = "wait" =>
        /\ steps' = steps
        /\ pc' = pc
        /\ operand' = operand
        /\ dispatched' = dispatched
        /\ delay' = delay
        /\ sound' = sound

\* The step is the events pass of the loop.
PassesEvents == loop = "events" /\ loop' # "events"

\* C20 as stated: while FX0A is outstanding no other instruction executes
\* and the timers are not decremented, whatever timer events arrive; and a
\* timer event that arrived during the wait is not applied afterwards: the
\* events pass ticks once for each timer event from outside the wait only.
C20_WaitDropsEveryTimerEvent ==
    [][/\ WaitHoldsMachine
       /\ PassesEvents =>
              /\ delay' = TickedDown(delay, TimerEventsFromOutsideWait(events))
              /\ sound' = TickedDown(sound, TimerEventsFromOutsideWait(events))]_vars

\* C20 amended: while FX0A is outstanding no other instruction executes and
\* the timers are not decremented; a timer event the wait takes from the
\* queue is dropped, but one still queued when the wait returns is applied:
\* the events pass ticks once for every timer event in the queue.
C20_WaitDropsTheTimerEventsItTakes ==
    [][/\ WaitHoldsMachine
       /\ PassesEvents =>
              /\ delay' = TickedDown(delay, TimerEvents(events))
              /\ sound' = TickedDown(sound, TimerEvents(events))]_vars

\* The wait of F10A has returned with key 3 while a timer event that
\* arrived during the wait is still queued, the delay timer at 2.
C20_TimerEventQueuedBehindKey ==
    /\ loop = "events"
    /\ returned = <<Op(15, 1, 0, 10)>>
    /\ v[1] = 3
    /\ delay = 2
    /\ events = <<[type |-> "TIMER", waited |-> TRUE]>>

---------------------------------------------------------------------------
(* C21 - C30                                                               *)

\* The step is one turn of the wait loop: it takes the oldest event.
TakesEventInWait == loop = "wait" /\ events # <<>> /\ events' = Tail(events)

\* The turn ends the wait: the call returns.
EndsWait == loop' = "events"

\* The register FX0A names, taken from the operand being executed.
WaitTarget == (operand \div 256) % 16

\* C21: the key wait ends exactly on a key-down event that finds one of the
\* sixteen mapped keys down; VX then holds the index of a mapped key that
\* is down and no other register has changed.  Any other event, and a
\* key-down with no mapped key down, leaves the wait and every register as
\* they were.
C21_WaitEndsOnMappedKeyDown ==
    [][TakesEventInWait =>
           /\ EndsWait <=> (/\ Head(events).type = "KEYDOWN"
                            /\ keys_pressed' \cap KEY_MAPPINGS # {})
           /\ EndsWait => /\ v'[WaitTarget] \in keys_pressed' \cap KEY_MAPPINGS
                          /\ \A r \in DOMAIN v : r # WaitTarget => v'[r] = v[r]
           /\ ~EndsWait => /\ v' = v
                           /\ loop' = "wait"]_vars

\* F10A returned with keys 1 and 15 down: V1 holds 1, V0 still holds 2.
C21_WaitEndedWithKey1 ==
    /\ loop = "events"
    /\ returned = <<Op(15, 1, 0, 10)>>
    /\ keys_pressed = {1, 15}
    /\ v[1] = 1
    /\ v[0] = 2

\* The loop moves on from the call of cpu_execute_instruction(): the step of
\* DriverExecute, told by the position alone.  DriverExecute is the only
\* action that leaves "execute" for "events" or "raised", and it can be taken
\* whenever its three conditions hold.
ExecuteTurn ==
    /\ steps < MaxSteps
    /\ loop = "execute"
    /\ FetchedMethod # "cpu_wait_for_keypress"
    /\ loop' \in {"events", "raised"}

\* The loop of screen_cpu_connector keeps running: a call that can be made
\* is made, the wait takes an event once one is queued, and the events pass
\* follows every instruction.  Nothing obliges pygame to queue an event.
SpecDriverLive ==
    /\ SpecDriver
    /\ WF_loop(ExecuteTurn)
    /\ WF_vars(DriverEnterWait)
    /\ WF_vars(WaitEvent)
    /\ WF_vars(DriverEvents)

\* The loop has been left, or the run has made all the calls it may make.
LoopOver == loop \in {"done", "raised"} \/ steps >= MaxSteps

\* C22: whenever a QUIT event is queued, in whatever state of the
\* interpreter, a key wait included, the loop eventually stops executing
\* instructions and is left.
C22_QuitEventuallyStopsTheLoop == [](HasEvent(events, "QUIT") => <>LoopOver)

\* A QUIT event that the events pass of the loop gets to take ends the loop.
QuitOutsideWaitStopsTheLoop ==
    [](HasEvent(events, "QUIT") /\ loop = "events" => <>LoopOver)

\* A QUIT event arrived while F10A was waiting, with calls still to make.
C22_QuitQueuedDuringWait ==
    /\ loop = "wait"
    /\ steps < MaxSteps
    /\ events = <<[type |-> "QUIT", waited |-> TRUE]>>


\* The step is a call that ran 00FD to completion.
RunsExit == steps' = steps + 1 /\ Completed(0) /\ Word = EXIT_STATE

\* cpu_execute_instruction() has returned 00FD to the loop.
ExitReturned == loop = "events" /\ returned = <<EXIT_STATE>>

\* C23: 00FD changes nothing in the core but the program counter, which the
\* fetch has moved on by 2; and once cpu_execute_instruction() has returned
\* 00FD, the loop begins no further instruction: the events pass that
\* follows may tick the timers, and then the loop is left for good.
C23_ExitIsANoOpAndEndsTheLoop ==
    [][/\ RunsExit =>
              /\ pc' = SeenPc
              /\ UNCHANGED << v, index, sp, rpl, delay, sound, mode, memory,
                              screen_width, screen_height, pixels, shown,
                              keys_pressed >>
       /\ ExitReturned =>
              /\ loop' \in {"events", "done"}
              /\ loop' = "events" => UNCHANGED machine
              /\ loop' = "done" => /\ call' = call \/ Ticks
                                   /\ UNCHANGED << pc, operand, v, index, sp, rpl,
                                                   mode, memory, pixels >>
       /\ loop # "done"]_vars

\* The loop was left after 00FD, the fifth instruction of the program.
C23_LoopLeftAfterExit ==
    /\ loop = "done"
    /\ returned = <<EXIT_STATE>>
    /\ pc = PROGRAM_COUNTER_START + 10
    /\ keys_pressed = {1, 15}

---------------------------------------------------------------------------
(* cpu_reset() after instructions that moved what it sets                  *)

\* The calls of a run of SpecReset.
ResetSteps == 3

\* The state 6010 6103 F015 F018 leave after construction.
InitReset ==
    /\ v = [ZeroRegisters EXCEPT ![0] = 16, ![1] = 3]
    /\ index = 0
    /\ sp = STACK_POINTER_START
    /\ pc = PROGRAM_COUNTER_START
    /\ rpl = ZeroRegisters
    /\ delay = 16
    /\ sound = 16
    /\ operand = Op(15, 0, 1, 8)
    /\ mode = MODE_NORMAL
    /\ memory = EmptyMemory
    /\ screen_width = SCREEN_WIDTH(MODE_NORMAL)
    /\ screen_height = SCREEN_HEIGHT(MODE_NORMAL)
    /\ pixels = {}
    /\ flips = 0
    /\ shown = {}
    /\ keys_pressed = {}
    /\ call = "cpu_execute_instruction"
    /\ cpu_operator_param = <<Op(15, 0, 1, 8)>>
    /\ outcome = "ok"
    /\ exc_arg = <<>>
    /\ returned = <<Op(15, 0, 1, 8)>>
    /\ dispatched = <<Op(15, 0, 1, 8)>>
    /\ steps = MaxSteps - ResetSteps
    /\ frames = <<>>
    /\ prev_pixels = {}
    /\ events = <<>>
    /\ loop = "off"

\* 0nnn (the mode switches among them), 2nnn, Annn, FX75, and cpu_reset().
NextReset ==
    \/ ExecClearReturn
    \/ ExecJumpToSubroutine
    \/ ExecLoadIndexRegWithValue
    \/ ExecStoreRegsInRpl
    \/ DoReset

SpecReset == InitReset /\ [][NextReset]_vars

\* cpu_reset() has just returned.
AfterReset == call = "cpu_reset"

\* C24: after cpu_reset(), from whatever state, the sixteen V registers, the
\* sixteen RPL slots, I and both timers are 0, PC is 0x200 and SP is 0x52.
C24_ResetZeroesRegistersAndTimers ==
    AfterReset =>
        /\ \A r \in 0 .. 15 : v[r] = 0 /\ rpl[r] = 0
        /\ DOMAIN v = 0 .. 15
        /\ DOMAIN rpl = 0 .. 15
        /\ index = 0
        /\ delay = 0
        /\ sound = 0
        /\ pc = 512
        /\ sp = 82

\* cpu_reset() ran after 2204, whose return address is still on the stack.
C24_ResetAfterCall ==
    /\ AfterReset
    /\ outcome = "ok"
    /\ MemRead(memory, 83) = 2
    /\ sp = 82
    /\ v[0] = 0

\* C25: cpu_reset() leaves all the state as construction left it, the mode
\* included: the registers and timers of C24, normal mode with its display
\* size, and the display and the memory blank.
C25_ResetRestoresConstructionState ==
    AfterReset =>
        /\ v = ZeroRegisters
        /\ rpl = ZeroRegisters
        /\ index = 0
        /\ delay = 0
        /\ sound = 0
        /\ pc = PROGRAM_COUNTER_START
        /\ sp = STACK_POINTER_START
        /\ mode = MODE_NORMAL
        /\ screen_width = SCREEN_WIDTH(MODE_NORMAL)
        /\ screen_height = SCREEN_HEIGHT(MODE_NORMAL)
        /\ pixels = {}
        /\ memory = EmptyMemory

\* cpu_reset() ran in extended mode and left it on.
C25_ExtendedModeAfterReset ==
    /\ AfterReset
    /\ mode = MODE_EXTENDED
    /\ screen_width = SCREEN_WIDTH(MODE_EXTENDED)
    /\ pc = PROGRAM_COUNTER_START

---------------------------------------------------------------------------
(* The RPL registers: any two calls after F275 has stored V0..V2           *)

\* The calls of a run of SpecRpl.
RplSteps == 2

\* The state 6010 6103 6207 F275 6001 6180 6209 leave after construction:
\* the RPL registers hold 16, 3, 7 and V0..V2 have moved on.
InitRpl ==
    /\ v = [ZeroRegisters EXCEPT ![0] = 1, ![1] = 128, ![2] = 9]
    /\ index = 0
    /\ sp = STACK_POINTER_START
    /\ pc = PROGRAM_COUNTER_START
    /\ rpl = [ZeroRegisters EXCEPT ![0] = 16, ![1] = 3, ![2] = 7]
    /\ delay = 0
    /\ sound = 0
    /\ operand = Op(6, 2, 0, 9)
    /\ mode = MODE_NORMAL
    /\ memory = EmptyMemory
    /\ screen_width = SCREEN_WIDTH(MODE_NORMAL)
    /\ screen_height = SCREEN_HEIGHT(MODE_NORMAL)
    /\ pixels = {}
    /\ flips = 0
    /\ shown = {}
    /\ keys_pressed = {}
    /\ call = "cpu_execute_instruction"
    /\ cpu_operator_param = <<Op(6, 2, 0, 9)>>
    /\ outcome = "ok"
    /\ exc_arg = <<>>
    /\ returned = <<Op(6, 2, 0, 9)>>
    /\ dispatched = <<Op(6, 2, 0, 9)>>
    /\ steps = MaxSteps - RplSteps
    /\ frames = <<>>
    /\ prev_pixels = {}
    /\ events = <<>>
    /\ loop = "off"

SpecRpl == InitRpl /\ [][Next]_vars

\* The step completes FX75, or FX85.
StoresRpl == Completed(15) /\ LowByte = 117

ReadsRpl == Completed(15) /\ LowByte = 133

Resets == call' = "cpu_reset"

\* C26: the RPL registers are changed by FX75 and by cpu_reset() alone.
\* FX75 copies V0..VX into slots 0..X and leaves the slots above X; FX85
\* copies slots 0..X, which hold what the last FX75 stored there whatever
\* ran in between, into V0..VX and leaves the registers above X.
C26_RplStoredByFx75ReadByFx85 ==
    [][/\ (~StoresRpl /\ ~Resets) => rpl' = rpl
       /\ StoresRpl =>
              /\ \A r \in 0 .. 15 : rpl'[r] = (IF r <= OpX THEN v[r] ELSE rpl[r])
              /\ v' = v
       /\ ReadsRpl =>
              /\ \A r \in 0 .. 15 : v'[r] = (IF r <= OpX THEN rpl[r] ELSE v[r])
              /\ rpl' = rpl]_vars

\* After 60FF and F185: V0 and V1 hold the 16 and 3 that F275 stored, V2
\* still holds 9, and slot 2 still holds 7.
C26_ReadBackAfterOtherInstruction ==
    /\ call = "cpu_execute_instruction"
    /\ dispatched = <<Op(15, 1, 8, 5)>>
    /\ steps = MaxSteps
    /\ v[0] = 16
    /\ v[1] = 3
    /\ v[2] = 9
    /\ rpl = [ZeroRegisters EXCEPT ![0] = 16, ![1] = 3, ![2] = 7]
    /\ pc = PROGRAM_COUNTER_START

---------------------------------------------------------------------------
(* The memory transfers FX33, FX55, FX65, from every value of V0            *)

\* The calls of a run of SpecMem.
MemSteps == 2

\* Where the index register points: into the loaded ROM, and at the last
\* three bytes of the memory.
MemIndexValues == {PROGRAM_COUNTER_START + 3, MAX_MEMORY - 3}

\* What V0 holds: a byte value, or the 510 that 60FF 800E leave in it.
MemRegisterValues == ByteValues \cup {510}

\* The state after cpu_load_rom of 6010 E09E and 60aa 6103 6209 Annn, or
\* 60FF 800E in the place of 60aa.
InitMem ==
    /\ \E a \in MemRegisterValues :
           v = [ZeroRegisters EXCEPT ![0] = a, ![1] = 3, ![2] = 9]
    /\ index \in MemIndexValues
    /\ sp = STACK_POINTER_START
    /\ pc = PROGRAM_COUNTER_START
    /\ rpl = ZeroRegisters
    /\ delay = 0
    /\ sound = 0
    /\ operand = Op(6, 2, 0, 9)
    /\ mode = MODE_NORMAL
    /\ memory = cpu_load_rom([memory |-> EmptyMemory, outcome |-> "ok"],
                             <<96, 16, 224, 158>>, PROGRAM_COUNTER_START).memory
    /\ screen_width = SCREEN_WIDTH(MODE_NORMAL)
    /\ screen_height = SCREEN_HEIGHT(MODE_NORMAL)
    /\ pixels = {}
    /\ flips = 0
    /\ shown = {}
    /\ keys_pressed = {}
    /\ call = "cpu_execute_instruction"
    /\ cpu_operator_param = <<Op(6, 2, 0, 9)>>
    /\ outcome = "ok"
    /\ exc_arg = <<>>
    /\ returned = <<Op(6, 2, 0, 9)>>
    /\ dispatched = <<Op(6, 2, 0, 9)>>
    /\ steps = MaxSteps - MemSteps
    /\ frames = <<>>
    /\ prev_pixels = {}
    /\ events = <<>>
    /\ loop = "off"

NextMem ==
    \/ ExecStoreBcdInMemory
    \/ ExecStoreRegsInMemory
    \/ ExecReadRegsFromMemory

SpecMem == InitMem /\ [][NextMem]_vars

\* The step is a call that dispatched FX55, FX65 or FX33 while I..I+n lies
\* inside the memory.
MemStepAny(low, n) ==
    /\ steps' = steps + 1
    /\ Dispatches
    /\ Group = 15
    /\ LowByte = low
    /\ index >= 0
    /\ index + n < MAX_MEMORY

\* The same, while V0..VX hold byte values.
MemStep(low, n) ==
    /\ MemStepAny(low, n)
    /\ \A r \in 0 .. OpX : v[r] \in 0 .. 255

\* Everything of the machine but the memory, the registers and the pc.
RestOfMachine ==
    << index, sp, rpl, delay, sound, mode, screen_width, screen_height,
       pixels, shown, keys_pressed >>

\* The state is the one a completed FX55 has left.
StoredRegs ==
    /\ call = "cpu_execute_instruction"
    /\ outcome = "ok"
    /\ dispatched # <<>>
    /\ dispatched[1] \div 4096 = 15
    /\ dispatched[1] % 256 = 85

\* C27: FX55 writes V0..VX to Memory[I..I+X] and nothing else, I included;
\* FX65 loads V0..VX from Memory[I..I+X] and nothing else; and FX65 with
\* the same X right after FX55 leaves every register as it was.
C27_StoreAndLoadRegisters ==
    [][/\ MemStepAny(85, OpX) =>
              /\ outcome' = "ok"
              /\ \A a \in 0 .. MAX_MEMORY - 1 :
                     MemRead(memory', a) =
                         (IF a \in index .. index + OpX THEN v[a - index]
                          ELSE MemRead(memory, a))
              /\ v' = v
              /\ pc' = SeenPc
              /\ UNCHANGED RestOfMachine
       /\ MemStepAny(101, OpX) =>
              /\ outcome' = "ok"
              /\ \A r \in 0 .. 15 :
                     v'[r] = (IF r <= OpX THEN MemRead(memory, index + r) ELSE v[r])
              /\ memory' = memory
              /\ pc' = SeenPc
              /\ UNCHANGED RestOfMachine
       /\ (StoredRegs /\ MemStepAny(101, OpX) /\ OpX = (dispatched[1] \div 256) % 16) =>
              v' = v]_vars

\* F155 with V0 = 510: the bytearray refused the value, nothing was written.
C27_StoreRefusedRegisterValue ==
    /\ call = "cpu_execute_instruction"
    /\ dispatched = <<Op(15, 1, 5, 5)>>
    /\ outcome = "ValueError"
    /\ v[0] = 510
    /\ index = MAX_MEMORY - 3
    /\ MemRead(memory, MAX_MEMORY - 3) = 0

\* The statement of C27 for registers that hold byte values.
StoresAndLoadsByteRegisters ==
    [][/\ MemStep(85, OpX) =>
              /\ outcome' = "ok"
              /\ \A a \in 0 .. MAX_MEMORY - 1 :
                     MemRead(memory', a) =
                         (IF a \in index .. index + OpX THEN v[a - index]
                          ELSE MemRead(memory, a))
              /\ v' = v
              /\ pc' = SeenPc
              /\ UNCHANGED RestOfMachine
       /\ MemStep(101, OpX) =>
              /\ outcome' = "ok"
              /\ \A r \in 0 .. 15 :
                     v'[r] = (IF r <= OpX THEN MemRead(memory, index + r) ELSE v[r])
              /\ memory' = memory
              /\ pc' = SeenPc
              /\ UNCHANGED RestOfMachine
       /\ (StoredRegs /\ MemStep(101, OpX) /\ OpX = (dispatched[1] \div 256) % 16) =>
              v' = v]_vars

\* F155 then F165 with I at the last three bytes: V0 = 200 and V1 = 3 were
\* written there and read back.
C27_StoredThenLoaded ==
    /\ call = "cpu_execute_instruction"
    /\ dispatched = <<Op(15, 1, 6, 5)>>
    /\ steps = MaxSteps
    /\ index = MAX_MEMORY - 3
    /\ MemRead(memory, MAX_MEMORY - 3) = 200
    /\ MemRead(memory, MAX_MEMORY - 2) = 3
    /\ MemRead(memory, MAX_MEMORY - 1) = 0
    /\ v = [ZeroRegisters EXCEPT ![0] = 200, ![1] = 3, ![2] = 9]

\* C28: with a value of 0..255 in VX, FX33 writes three decimal digits to
\* Memory[I], Memory[I+1], Memory[I+2], hundreds first, which make up the
\* value again; no other byte of the memory and no register changes.
C28_BcdDigitsMakeUpTheValue ==
    [][MemStep(51, 2) =>
           /\ outcome' = "ok"
           /\ \A k \in 0 .. 2 : MemRead(memory', index + k) \in 0 .. 9
           /\ (100 * MemRead(memory', index)) + (10 * MemRead(memory', index + 1))
                  + MemRead(memory', index + 2) = v[OpX]
           /\ \A a \in 0 .. MAX_MEMORY - 1 :
                  a \notin index .. index + 2 => MemRead(memory', a) = MemRead(memory, a)
           /\ v' = v
           /\ pc' = SeenPc
           /\ UNCHANGED RestOfMachine]_vars

\* F033 with V0 = 207 and I inside the ROM: 2, 0, 7 from 0x203 on.
C28_Bcd207 ==
    /\ call = "cpu_execute_instruction"
    /\ dispatched = <<Op(15, 0, 3, 3)>>
    /\ v[0] = 207
    /\ index = PROGRAM_COUNTER_START + 3
    /\ MemRead(memory, PROGRAM_COUNTER_START + 3) = 2
    /\ MemRead(memory, PROGRAM_COUNTER_START + 4) = 0
    /\ MemRead(memory, PROGRAM_COUNTER_START + 5) = 7
    /\ MemRead(memory, PROGRAM_COUNTER_START + 2) = 224

---------------------------------------------------------------------------
(* The key skips EX9E and EXA1, for every key index in V0                  *)

\* The calls of a run of SpecKeys.
KeySteps == 2

\* The state 600k leaves after construction, for each key index k.
InitKeys ==
    /\ \E k \in KEY_MAPPINGS : v = [ZeroRegisters EXCEPT ![0] = k]
    /\ index = 0
    /\ sp = STACK_POINTER_START
    /\ pc = PROGRAM_COUNTER_START
    /\ rpl = ZeroRegisters
    /\ delay = 0
    /\ sound = 0
    /\ operand = Op(6, 0, 0, v[0])
    /\ mode = MODE_NORMAL
    /\ memory = EmptyMemory
    /\ screen_width = SCREEN_WIDTH(MODE_NORMAL)
    /\ screen_height = SCREEN_HEIGHT(MODE_NORMAL)
    /\ pixels = {}
    /\ flips = 0
    /\ shown = {}
    /\ keys_pressed = {}
    /\ call = "cpu_execute_instruction"
    /\ cpu_operator_param = <<operand>>
    /\ outcome = "ok"
    /\ exc_arg = <<>>
    /\ returned = <<operand>>
    /\ dispatched = <<operand>>
    /\ steps = MaxSteps - KeySteps
    /\ frames = <<>>
    /\ prev_pixels = {}
    /\ events = <<>>
    /\ loop = "off"

NextKeys == ExecKeyboardRoutines

SpecKeys == InitKeys /\ [][NextKeys]_vars

\* The step is a call that dispatched EX9E or EXA1 with a key index in VX.
KeyStep(low) ==
    /\ steps' = steps + 1
    /\ Dispatches
    /\ Group = 14
    /\ LowByte = low
    /\ v[OpX] \in 0 .. 15

\* What a key skip leaves alone: everything but the pc.
KeySkipFrame ==
    UNCHANGED << v, index, sp, rpl, delay, sound, mode, memory, screen_width,
                 screen_height, pixels, shown >>

\* E09E, or E0A1, called in the current state with the keys down, skips.
SkipsWith(o, keys) ==
    cpu_keyboard_routines([S EXCEPT !.operand = o], keys).pc = pc + 2

\* C29: with a key index in VX, EX9E adds 2 to the pc exactly when that key
\* is down and EXA1 exactly when it is not, so that for one state of the
\* keys exactly one of the two skips; neither changes anything but the pc.
C29_KeySkipsAreComplementary ==
    [][/\ KeyStep(158) =>
              /\ outcome' = "ok"
              /\ pc' = (IF v[OpX] \in keys_pressed' THEN SeenPc + 2 ELSE SeenPc)
              /\ KeySkipFrame
       /\ KeyStep(161) =>
              /\ outcome' = "ok"
              /\ pc' = (IF v[OpX] \notin keys_pressed' THEN SeenPc + 2 ELSE SeenPc)
              /\ KeySkipFrame
       /\ v[0] \in 0 .. 15 =>
              \A keys \in KeyStates :
                  SkipsWith(Op(14, 0, 9, 14), keys) # SkipsWith(Op(14, 0, 10, 1), keys)]_vars

\* E09E, the first call, skipped on key 15, which is down together with
\* key 1.
C29_SkippedOnKey15 ==
    /\ call = "cpu_execute_instruction"
    /\ dispatched = <<Op(14, 0, 9, 14)>>
    /\ steps = MaxSteps - KeySteps + 1
    /\ v[0] = 15
    /\ keys_pressed = {1, 15}
    /\ pc = PROGRAM_COUNTER_START + 2

---------------------------------------------------------------------------
(* The immediate forms 6rvv and 7rvv, from every value of V0               *)

\* The calls of a run of SpecImm.
ImmSteps == 1

\* The registers and the bytes of the operands.
ImmRegisters == {0, 1, 15}

ImmBytes == {0, 1, 128, 255}

ImmOperands ==
    {Op(g, r, b \div 16, b % 16) : g \in {6, 7}, r \in ImmRegisters, b \in ImmBytes}

\* The state after cpu_load_rom of 6010 E09E and 60aa 6103 6F01 A203 F115
\* F118, or 60FF 800E in the place of 60aa.
InitImm ==
    /\ \E a \in MemRegisterValues :
           v = [ZeroRegisters EXCEPT ![0] = a, ![1] = 3, ![15] = 1]
    /\ index = PROGRAM_COUNTER_START + 3
    /\ sp = STACK_POINTER_START
    /\ pc = PROGRAM_COUNTER_START
    /\ rpl = ZeroRegisters
    /\ delay = 3
    /\ sound = 3
    /\ operand = Op(15, 1, 1, 8)
    /\ mode = MODE_NORMAL
    /\ memory = cpu_load_rom([memory |-> EmptyMemory, outcome |-> "ok"],
                             <<96, 16, 224, 158>>, PROGRAM_COUNTER_START).memory
    /\ screen_width = SCREEN_WIDTH(MODE_NORMAL)
    /\ screen_height = SCREEN_HEIGHT(MODE_NORMAL)
    /\ pixels = {}
    /\ flips = 0
    /\ shown = {}
    /\ keys_pressed = {}
    /\ call = "cpu_execute_instruction"
    /\ cpu_operator_param = <<Op(15, 1, 1, 8)>>
    /\ outcome = "ok"
    /\ exc_arg = <<>>
    /\ returned = <<Op(15, 1, 1, 8)>>
    /\ dispatched = <<Op(15, 1, 1, 8)>>
    /\ steps = MaxSteps - ImmSteps
    /\ frames = <<>>
    /\ prev_pixels = {}
    /\ events = <<>>
    /\ loop = "off"

\* cpu_execute_instruction called with a 6rvv or 7rvv operand, or with none
\* where the program counter is at one.
ExecImmediate ==
    /\ steps < MaxSteps
    /\ \E p \in {<<o>> : o \in ImmOperands \ {0}} \cup {<<>>} :
           /\ (p = <<>>) => FetchedMethod \in {"cpu_move_value_to_reg",
                                               "cpu_add_value_to_reg"}
           /\ Execute(p, NoEnv)

NextImm == ExecImmediate

SpecImm == InitImm /\ [][NextImm]_vars

\* The step is a call that dispatched an operand of group g.
ImmStep(g) ==
    /\ steps' = steps + 1
    /\ Dispatches
    /\ Group = g

\* What 6rvv and 7rvv leave alone: everything but VX and a fetch's pc.
ImmFrame ==
    /\ outcome' = "ok"
    /\ pc' = SeenPc
    /\ memory' = memory
    /\ UNCHANGED RestOfMachine

\* C30: 6rvv leaves v in Vr, and 7rvv leaves (Vr + v) mod 256 in Vr; both
\* leave every other register, VF included when r is not 0xF, and I, SP,
\* the timers and the memory as they were.
C30_ImmediateLoadAndAdd ==
    [][/\ ImmStep(6) => /\ v' = [v EXCEPT ![OpX] = LowByte]
                        /\ ImmFrame
       /\ ImmStep(7) => /\ v' = [v EXCEPT ![OpX] = (v[OpX] + LowByte) % 256]
                        /\ ImmFrame]_vars

\* 70FF with V0 = 510 left 509 in V0.
C30_AddLeft509 ==
    /\ call = "cpu_execute_instruction"
    /\ dispatched = <<Op(7, 0, 15, 15)>>
    /\ outcome = "ok"
    /\ v = [ZeroRegisters EXCEPT ![0] = 509, ![1] = 3, ![15] = 1]

\* The statement of C30 for a register that holds a byte value.
AddsImmediateToByteRegister ==
    [][/\ ImmStep(6) => /\ v' = [v EXCEPT ![OpX] = LowByte]
                        /\ ImmFrame
       /\ (ImmStep(7) /\ v[OpX] \in 0 .. 255) =>
              /\ v' = [v EXCEPT ![OpX] = (v[OpX] + LowByte) % 256]
              /\ ImmFrame]_vars

\* 7080 with V0 = 200 left 72 in V0 and VF at 1.
AddWrapped200 ==
    /\ call = "cpu_execute_instruction"
    /\ dispatched = <<Op(7, 0, 8, 0)>>
    /\ v = [ZeroRegisters EXCEPT ![0] = 72, ![1] = 3, ![15] = 1]

---------------------------------------------------------------------------
(* C31 - C35                                                               *)

\* Bit k of a value that is not negative.
BitOf(a, k) == (a \div (2 ^ k)) % 2

\* One bit of the result of 8XY0, 8XY1, 8XY2, 8XY3 from the bits x of VX
\* and y of VY.
LogicBit(n, x, y) ==
    CASE n = 0 -> y
      [] n = 1 -> IF x + y > 0 THEN 1 ELSE 0
      [] n = 2 -> x * y
      [] n = 3 -> (x + y) % 2

\* C31: 8XY0, 8XY1, 8XY2, 8XY3 leave VY, VX OR VY, VX AND VY, VX XOR VY in
\* VX, bit by bit, and leave VF (X is not 0xF) and every other register,
\* I, SP, the RPL registers and the timers as they were.
C31_MoveAndBitwiseLeaveFlagAlone ==
    [][\A n \in 0 .. 3 :
          AluStep(n) =>
              /\ v'[OpX] \in 0 .. 255
              /\ \A k \in 0 .. 7 :
                     BitOf(v'[OpX], k) = LogicBit(n, BitOf(v[OpX], k), BitOf(v[OpY], k))
              /\ \A r \in 0 .. 15 : r # OpX => v'[r] = v[r]
              /\ UNCHANGED << index, sp, rpl, delay, sound >>]_vars

\* XOR V0, V1 on 240 and 255: V0 holds 15, VF still holds the 240 it was
\* loaded with.
C31_XorLeft15 ==
    /\ dispatched = <<Op(8, 0, 1, 3)>>
    /\ outcome = "ok"
    /\ v[0] = 15
    /\ v[1] = 255
    /\ v[15] = 240


\* The calls made of the machine in the screen runs.
ScreenSteps == 2

\* Scroll down by every line count, 00C0 to 00CF.
ScrollDownOperands == {Op(0, 0, 12, n) : n \in 0 .. 15}

\* A machine built in either mode whose display shows nothing or a pattern
\* drawn by earlier instructions.
InitScreen ==
    /\ v = [ZeroRegisters EXCEPT ![0] = 3, ![1] = 5]
    /\ index = SpriteAddress
    /\ sp = STACK_POINTER_START
    /\ pc = PROGRAM_COUNTER_START
    /\ rpl = ZeroRegisters
    /\ delay = 0
    /\ sound = 0
    /\ operand = 0
    /\ mode \in {MODE_NORMAL, MODE_EXTENDED}
    /\ memory = SpriteMemory
    /\ screen_width = SCREEN_WIDTH(mode)
    /\ screen_height = SCREEN_HEIGHT(mode)
    /\ pixels \in LitDisplays
    /\ flips = 0
    /\ shown = pixels
    /\ keys_pressed = {}
    /\ call = "cpu_execute_instruction"
    /\ cpu_operator_param = <<Op(6, 1, 0, 5)>>
    /\ outcome = "ok"
    /\ exc_arg = <<>>
    /\ returned = <<Op(6, 1, 0, 5)>>
    /\ dispatched = <<Op(6, 1, 0, 5)>>
    /\ steps = MaxSteps - ScreenSteps
    /\ frames = <<>>
    /\ prev_pixels = pixels
    /\ events = <<>>
    /\ loop = "off"

\* cpu_execute_instruction called with a scroll-down operand.
ExecScrollDownAnyCount ==
    /\ steps < MaxSteps
    /\ \E o \in ScrollDownOperands : Execute(<<o>>, NoEnv)

NextScreen ==
    \/ ExecClearReturn
    \/ ExecScrollDownAnyCount
    \/ ExecDrawSprite
    \/ DoReset

SpecScreen == InitScreen /\ [][NextScreen]_vars

\* Exactly one mode is in force and the display has that mode's size.
ModeMatchesDisplay ==
    /\ mode \in {MODE_NORMAL, MODE_EXTENDED}
    /\ MODE_NORMAL # MODE_EXTENDED
    /\ mode = MODE_NORMAL <=> (screen_width = 64 /\ screen_height = 32)
    /\ mode = MODE_EXTENDED <=> (screen_width = 128 /\ screen_height = 64)

\* The step ran the instruction 00nn of the given low byte to completion.
ClearReturnStep(low) ==
    /\ steps' = steps + 1
    /\ Completed(0)
    /\ LowByte = low

\* C32: in every state one mode is in force and the display has its size,
\* 64x32 in normal and 128x64 in extended mode.  00FF leaves the machine in
\* extended and 00FE in normal mode, the display resized and no pixel lit,
\* in the buffer or on the window.
C32_ModeAgreesWithDisplay ==
    [][/\ ModeMatchesDisplay
       /\ ModeMatchesDisplay'
       /\ ClearReturnStep(255) =>
              /\ mode' = MODE_EXTENDED
              /\ screen_width' = 128
              /\ screen_height' = 64
              /\ pixels' = {}
              /\ shown' = {}
       /\ ClearReturnStep(254) =>
              /\ mode' = MODE_NORMAL
              /\ screen_width' = 64
              /\ screen_height' = 32
              /\ pixels' = {}
              /\ shown' = {}]_vars

\* 00FF ran on a normal display with lit pixels: the display is 128x64 and
\* dark.
C32_EnlargedLitDisplay ==
    /\ dispatched = <<Op(0, 0, 15, 15)>>
    /\ outcome = "ok"
    /\ prev_pixels # {}
    /\ pixels = {}
    /\ mode = MODE_EXTENDED
    /\ screen_width = 128
    /\ steps = MaxSteps - ScreenSteps + 1


\* The step is a call of 00Cn, 00FB or 00FC that reached cpu_clear_return.
ScrollStep ==
    /\ steps' = steps + 1
    /\ Dispatches
    /\ Group = 0
    /\ (LowByte \div 16 = 12 \/ LowByte \in {251, 252})

\* The lit pixels after every pixel moved by (dx, dy), those that leave the
\* grid dropped.
Scrolled(dx, dy) ==
    {<<xy[1] + dx, xy[2] + dy>> :
        xy \in {q \in pixels : /\ q[1] + dx \in 0 .. screen_width - 1
                                /\ q[2] + dy \in 0 .. screen_height - 1}}

\* What the scroll of the step's operand leaves lit.
ScrolledByOperand ==
    CASE LowByte = 251 -> Scrolled(4, 0)
      [] LowByte = 252 -> Scrolled(-4, 0)
      [] OTHER -> Scrolled(0, LowNibble)

\* C33: 00Cn for every n, 00FB and 00FC complete in both modes, move the
\* lit pixels by n lines down or four columns right or left, leave the
\* vacated area dark and leave no pixel outside the grid.
C33_ScrollsMoveWithinTheGrid ==
    [][ScrollStep =>
           /\ outcome' = "ok"
           /\ pixels' = ScrolledByOperand
           /\ \A xy \in pixels' :
                  /\ xy[1] \in 0 .. screen_width' - 1
                  /\ xy[2] \in 0 .. screen_height' - 1]_vars

\* 00FB was called on a lit display in extended mode: the call raised
\* AttributeError and the display is as it was.
C33_ScrollRightRaised ==
    /\ call = "cpu_execute_instruction"
    /\ dispatched = <<Op(0, 0, 15, 11)>>
    /\ outcome = "AttributeError"
    /\ mode = MODE_EXTENDED
    /\ pixels # {}
    /\ pixels = prev_pixels


\* The calls made of the machine in the stack pointer runs.
SpSteps == 2

\* The stack pointer after (MAX_MEMORY + STACK_POINTER_START - 2) / 2 returns
\* with no call between them: each return took two from it.
SpAfterReturns == 2 - MAX_MEMORY

\* A machine just built, or one with empty memory on which 00EE was run
\* until the stack pointer reached SpAfterReturns: every return read the
\* program counter 0 from the empty memory.
InitSp ==
    /\ v = ZeroRegisters
    /\ index = 0
    /\ \/ /\ sp = STACK_POINTER_START
          /\ pc = PROGRAM_COUNTER_START
          /\ call = "cpu_reset"
          /\ cpu_operator_param = <<>>
          /\ returned = <<>>
          /\ dispatched = <<>>
          /\ operand = 0
       \/ /\ sp = SpAfterReturns
          /\ pc = 0
          /\ call = "cpu_execute_instruction"
          /\ cpu_operator_param = <<Op(0, 0, 14, 14)>>
          /\ returned = <<Op(0, 0, 14, 14)>>
          /\ dispatched = <<Op(0, 0, 14, 14)>>
          /\ operand = Op(0, 0, 14, 14)
    /\ rpl = ZeroRegisters
    /\ delay \in {0, 2}
    /\ sound = 0
    /\ mode = MODE_NORMAL
    /\ memory = EmptyMemory
    /\ screen_width = SCREEN_WIDTH(MODE_NORMAL)
    /\ screen_height = SCREEN_HEIGHT(MODE_NORMAL)
    /\ pixels = {}
    /\ flips = 0
    /\ shown = {}
    /\ keys_pressed = {}
    /\ outcome = "ok"
    /\ exc_arg = <<>>
    /\ steps = MaxSteps - SpSteps
    /\ frames = <<>>
    /\ prev_pixels = {}
    /\ events = <<>>
    /\ loop = "off"

NextSp ==
    \/ ExecClearReturn
    \/ ExecJumpToSubroutine
    \/ ExecLoadIndexRegWithValue
    \/ ExecStoreRegsInRpl
    \/ Tick
    \/ DoReset

SpecSp == InitSp /\ [][NextSp]_vars

\* The step ran 2nnn to completion.
Calls ==
    /\ steps' = steps + 1
    /\ Completed(2)

\* The step ran 00EE to completion.
Returns ==
    /\ steps' = steps + 1
    /\ Completed(0)
    /\ LowByte = 238

\* What a step may do to the stack pointer: a call adds two, a return
\* takes two, a reset sets 0x52, and nothing else moves it.
SpStep ==
    /\ Calls => sp' = sp + 2
    /\ Returns => sp' = sp - 2
    /\ Resets => sp' = STACK_POINTER_START
    /\ ~ (Calls \/ Returns \/ Resets) => sp' = sp

\* C34: the stack pointer is 0x52 after reset and moves by +2 with every
\* call executed and by -2 with every return executed, which makes it
\* 0x52 + 2 * (calls - returns since reset) and even in every state; no
\* other instruction, no failed instruction and no timer tick moves it.
C34_SpCountsCallsAndReturns ==
    [][/\ sp % 2 = 0
       /\ sp' % 2 = 0
       /\ SpStep]_vars

\* 00EE found the stack pointer at -MAX_MEMORY: the first read failed with
\* IndexError after the pointer was taken down by one.
C34_ReturnLeftSpOdd ==
    /\ call = "cpu_execute_instruction"
    /\ dispatched = <<Op(0, 0, 14, 14)>>
    /\ outcome = "IndexError"
    /\ sp = (0 - MAX_MEMORY) - 1
    /\ sp % 2 = 1

\* As long as the stack pointer is above -MAX_MEMORY the steps move it as
\* C34 says.
SpCountsCallsAndReturnsInsideMemory ==
    [][(sp % 2 = 0 /\ sp > 0 - MAX_MEMORY) => (sp' % 2 = 0 /\ SpStep)]_vars


\* The step is the call of cpu_execute_instruction() of a pass of the loop.
BeginsInstruction == loop = "execute" /\ loop' # "execute"

\* The step completes FX07.
ReadsDelay == Completed(15) /\ LowByte = 7

\* The call of a pass: one instruction is begun, no event is taken and no
\* tick is made; the timers change by FX15 and FX18 alone, and FX07 leaves
\* in VX the value the delay timer has before and after it.
PassExecutesOneInstruction ==
    BeginsInstruction =>
        /\ steps' = steps + 1
        /\ call' = "cpu_execute_instruction"
        /\ events' = events
        /\ loop' \in {"events", "wait", "raised"}
        /\ ~ LoadsDelay => delay' = delay
        /\ ~ LoadsSound => sound' = sound
        /\ ReadsDelay => (v'[OpX] = delay /\ v'[OpX] = delay')

\* The key wait makes no tick and ends in the events pass.
WaitMakesNoTick ==
    loop = "wait" =>
        /\ call' = "cpu_execute_instruction"
        /\ steps' = steps
        /\ delay' = delay
        /\ sound' = sound
        /\ loop' \in {"wait", "events"}

\* The events pass follows the instruction: one cpu_decrement_timers() for
\* each TIMER event in the queue, which it empties, and no instruction.
PassTicksPerTimerEvent ==
    PassesEvents =>
        /\ steps' = steps + TimerEvents(events)
        /\ delay' = TickedDown(delay, TimerEvents(events))
        /\ sound' = TickedDown(sound, TimerEvents(events))
        /\ events' = <<>>
        /\ loop' \in {"execute", "done"}
        /\ UNCHANGED << v, index, sp, pc, rpl, memory, operand, pixels >>

\* An event that arrives changes nothing but the queue.
ArrivalLeavesMachine ==
    (loop' = loop /\ loop # "wait") => UNCHANGED machine

\* C35: in the loop of screen_cpu_connector a pass runs one instruction to
\* its end, without a tick in it, and then ticks the timers once for each
\* TIMER event in the queue; no tick is made at any other point, so FX07
\* stores the value the delay timer holds before and after the instruction.
C35_TicksOnlyBetweenInstructions ==
    [][/\ PassExecutesOneInstruction
       /\ WaitMakesNoTick
       /\ PassTicksPerTimerEvent
       /\ ArrivalLeavesMachine]_vars

\* F007 has run in the loop while a TIMER event stood in the queue: V0 and
\* the delay timer both hold the 2 that FX15 stored, the event is still
\* queued for the events pass.
C35_ReadDelayWithTickPending ==
    /\ loop = "events"
    /\ dispatched = <<Op(15, 0, 0, 7)>>
    /\ outcome = "ok"
    /\ v[0] = 2
    /\ delay = 2
    /\ HasEvent(events, "TIMER")


---------------------------------------------------------------------------
(* Any two calls on a machine whose V0 and I are loaded                    *)

\* The calls of a run of SpecPair.
PairSteps == 2

\* The state 6010 A203, passed in as operands, leave after construction and
\* the loading of a ROM or of none.
InitPair ==
    /\ v = [ZeroRegisters EXCEPT ![0] = 16]
    /\ index = 515
    /\ sp = STACK_POINTER_START
    /\ pc = PROGRAM_COUNTER_START
    /\ rpl = ZeroRegisters
    /\ delay = 0
    /\ sound = 0
    /\ operand = Op(10, 2, 0, 3)
    /\ mode = MODE_NORMAL
    /\ \E cpu_romdata \in Roms \cup {<<>>} :
           memory = cpu_load_rom([memory |-> EmptyMemory, outcome |-> "ok"],
                                 cpu_romdata, PROGRAM_COUNTER_START).memory
    /\ screen_width = SCREEN_WIDTH(MODE_NORMAL)
    /\ screen_height = SCREEN_HEIGHT(MODE_NORMAL)
    /\ pixels = {}
    /\ flips = 0
    /\ shown = {}
    /\ keys_pressed = {}
    /\ call = "cpu_execute_instruction"
    /\ cpu_operator_param = <<Op(10, 2, 0, 3)>>
    /\ outcome = "ok"
    /\ exc_arg = <<>>
    /\ returned = <<Op(10, 2, 0, 3)>>
    /\ dispatched = <<Op(10, 2, 0, 3)>>
    /\ steps = MaxSteps - PairSteps
    /\ frames = <<>>
    /\ prev_pixels = {}
    /\ events = <<>>
    /\ loop = "off"

SpecPair == InitPair /\ [][Next]_vars

=============================================================================
